---- MODULE Spec2Model ----
(***************************************************************************)
(* Model of json-flat-tool/jstool.py (path navigation, edit operations,    *)
(* deep merge, value parsing, command dispatch in main, the flat view,     *)
(* schema inference) and of local-issue/next-issue-id.py.                  *)
(*                                                                         *)
(* A JSON value is a record with the same five fields for every kind:      *)
(*   t : the name get_type_name gives it                                   *)
(*   n : the payload of an integer, 1/0 for a boolean, else 0              *)
(*   s : the payload of a string, the repr of a float, else ""             *)
(*   k : the keys of an object in insertion order, else << >>              *)
(*   v : the values of an object (parallel to k) or the elements of an     *)
(*       array, else << >>                                                 *)
(* Python's None and JSON null are the same value, Null.                   *)
(* A path segment is [str, key, idx]: a string key (str = TRUE) or an      *)
(* integer index (str = FALSE).                                            *)
(* A character is a one-character string when it is printable and at most *)
(* U+00FF, or a tab, line feed, form feed or carriage return; every other  *)
(* character, and the letter U, is written "U+" followed by six            *)
(* hexadecimal digits.                                                     *)
(* The variables arg and ans hold the argument and the outcome of the      *)
(* latest call of parse_path, cmd_view, _infer or next_issue_id; dirs is   *)
(* the issues directory.                                                   *)
(***************************************************************************)
EXTENDS Integers, Sequences, FiniteSets, TLC

VARIABLES data, last, steps, file, run, arg, ans, dirs

vars == <<data, last, steps, file, run, arg, ans, dirs>>

-----------------------------------------------------------------------------
(* JSON values *)

Null == [t |-> "null", n |-> 0, s |-> "", k |-> <<>>, v |-> <<>>]

JBool(b) == [t |-> "boolean", n |-> IF b THEN 1 ELSE 0, s |-> "", k |-> <<>>, v |-> <<>>]

JInt(i) == [t |-> "integer", n |-> i, s |-> "", k |-> <<>>, v |-> <<>>]

JStr(x) == [t |-> "string", n |-> 0, s |-> x, k |-> <<>>, v |-> <<>>]

\* a float is kept as the text repr() gives it, as in "1.5", "-0.0", "1e+16",
\* "inf" and "nan": two floats are the same double exactly when they have
\* the same text
JFloat(text) == [t |-> "number", n |-> 0, s |-> text, k |-> <<>>, v |-> <<>>]

JArr(items) == [t |-> "array", n |-> 0, s |-> "", k |-> <<>>, v |-> items]

JObj(keys, vals) == [t |-> "object", n |-> 0, s |-> "", k |-> keys, v |-> vals]

get_type_name(d) == d.t

IsDict(d) == d.t = "object"

IsList(d) == d.t = "array"

(* path segments *)

K(name) == [str |-> TRUE, key |-> name, idx |-> 0]

I(i) == [str |-> FALSE, key |-> "", idx |-> i]

-----------------------------------------------------------------------------
(* Python container primitives used by the edit operations *)

\* position (1-based) of key in an object's key list, 0 when absent
KeyPos(d, key) ==
  IF \E i \in 1..Len(d.k) : d.k[i] = key
    THEN CHOOSE i \in 1..Len(d.k) : d.k[i] = key
    ELSE 0

\* 0-based position a Python list index addresses (negative: from the end)
NormIdx(n, i) == IF i < 0 THEN i + n ELSE i

SeqReplace(sq, pos, x) == [j \in 1..Len(sq) |-> IF j = pos THEN x ELSE sq[j]]

SeqRemove(sq, pos) == [j \in 1..(Len(sq) - 1) |-> IF j < pos THEN sq[j] ELSE sq[j + 1]]

SeqInsert(sq, pos, x) ==
  [j \in 1..(Len(sq) + 1) |-> IF j < pos THEN sq[j] ELSE IF j = pos THEN x ELSE sq[j - 1]]

\* d[key] for a dict and a key it holds
DictGet(d, key) == d.v[KeyPos(d, key)]

\* a dict assignment that drops the key and adds it again at the end
DictSet_MovesKey(d, key, x) ==
  IF KeyPos(d, key) > 0
    THEN JObj(Append(SeqRemove(d.k, KeyPos(d, key)), key), Append(SeqRemove(d.v, KeyPos(d, key)), x))
    ELSE JObj(Append(d.k, key), Append(d.v, x))

\* d[key] = x : an existing key keeps its position, a new key goes last
DictSet(d, key, x) ==
  IF KeyPos(d, key) > 0
    THEN JObj(d.k, SeqReplace(d.v, KeyPos(d, key), x))
    ELSE JObj(Append(d.k, key), Append(d.v, x))

\* del d[key]
DictDel(d, key) == JObj(SeqRemove(d.k, KeyPos(d, key)), SeqRemove(d.v, KeyPos(d, key)))

\* l[i] for an index in range
ListGet(l, i) == l.v[NormIdx(Len(l.v), i) + 1]

\* l[i] = x for an index in range
ListSet(l, i, x) == JArr(SeqReplace(l.v, NormIdx(Len(l.v), i) + 1, x))

\* a pop that takes a negative index for the first position
ListPop_NoNegative(l, i) == JArr(SeqRemove(l.v, (IF i < 0 THEN 0 ELSE i) + 1))

\* l.pop(i) for an index in range
ListPop(l, i) == JArr(SeqRemove(l.v, NormIdx(Len(l.v), i) + 1))

\* l.insert(i, x): a negative index counts from the end, then is clamped to 0..len
InsertPos(n, i) ==
  LET a == IF i < 0 THEN i + n ELSE i
  IN  IF a < 0 THEN 0 ELSE IF a > n THEN n ELSE a

\* an insert that overwrites the element at the position
ListInsert_Overwrite(l, i, x) ==
  IF Len(l.v) = 0 THEN l
  ELSE JArr(SeqReplace(l.v, (IF InsertPos(Len(l.v), i) >= Len(l.v) THEN Len(l.v) ELSE InsertPos(Len(l.v), i) + 1), x))

ListInsert(l, i, x) == JArr(SeqInsert(l.v, InsertPos(Len(l.v), i) + 1, x))

\* parent[key] = x, for the container and segment navigate returned
SetItem(parent, seg, x) ==
  IF IsDict(parent) THEN DictSet(parent, seg.key, x) ELSE ListSet(parent, seg.idx, x)

-----------------------------------------------------------------------------
(* navigate *)

NoErr == "none"

NavErrors == {"TypeError", "KeyError", "IndexError"}

\* a range check that rejects negative indices
SegErr_NoNegative(node, seg) ==
  IF seg.str
    THEN IF ~IsDict(node) THEN "TypeError"
         ELSE IF KeyPos(node, seg.key) = 0 THEN "KeyError"
         ELSE NoErr
    ELSE IF ~IsList(node) THEN "TypeError"
         ELSE IF ~(0 <= seg.idx /\ seg.idx < Len(node.v)) THEN "IndexError"
         ELSE NoErr

\* the error the segment raises on node, or NoErr
SegErr(node, seg) ==
  IF seg.str
    THEN IF ~IsDict(node) THEN "TypeError"
         ELSE IF KeyPos(node, seg.key) = 0 THEN "KeyError"
         ELSE NoErr
    ELSE IF ~IsList(node) THEN "TypeError"
         ELSE IF ~(-Len(node.v) <= seg.idx /\ seg.idx < Len(node.v)) THEN "IndexError"
         ELSE NoErr

Child(node, seg) == IF seg.str THEN DictGet(node, seg.key) ELSE ListGet(node, seg.idx)

RECURSIVE NavLoop(_, _, _, _, _)
\* the for loop of navigate from segment number i on; at counts the segments walked
NavLoop(parent, key, node, segments, i) ==
  IF i > Len(segments)
    THEN [err |-> NoErr, at |-> i - 1, parent |-> parent, key |-> key, node |-> node]
    ELSE LET seg == segments[i] IN
         IF SegErr(node, seg) # NoErr
           THEN [err |-> SegErr(node, seg), at |-> i, parent |-> Null, key |-> <<>>, node |-> Null]
           ELSE NavLoop(node, <<seg>>, Child(node, seg), segments, i + 1)

\* (parent, key, node); key is << >> for None and <<seg>> otherwise
navigate(d, segments) == NavLoop(Null, <<>>, d, segments, 1)

RECURSIVE ReplaceAt(_, _, _)
\* the document after the object reached by segs has been given the content x
\* (the effect on the tree of mutating that object in place)
ReplaceAt(d, segs, x) ==
  IF segs = <<>> THEN x
  ELSE SetItem(d, Head(segs), ReplaceAt(Child(d, Head(segs)), Tail(segs), x))

Front(sq) == SubSeq(sq, 1, Len(sq) - 1)

LastSeg(sq) == sq[Len(sq)]

-----------------------------------------------------------------------------
(* Edit operations.  Each returns                                          *)
(*   err  : NoErr or the exception raised                                  *)
(*   doc  : the content of the caller's document object after the call     *)
(*   ret  : the value returned (Null when an exception is raised)          *)
(*   same : TRUE when the returned reference is the document object        *)

Raise(d, e) == [err |-> e, doc |-> d, ret |-> Null, same |-> FALSE]

InPlace(d) == [err |-> NoErr, doc |-> d, ret |-> d, same |-> TRUE]

Fresh(d, x) == [err |-> NoErr, doc |-> d, ret |-> x, same |-> FALSE]

apply_set(d, segments, new_val) ==
  IF segments = <<>> THEN Fresh(d, new_val)
  ELSE LET nav == navigate(d, segments) IN
       IF nav.err # NoErr THEN Raise(d, nav.err)
       ELSE InPlace(ReplaceAt(d, Front(segments), SetItem(nav.parent, nav.key[1], new_val)))

apply_del(d, segments) ==
  IF segments = <<>> THEN Raise(d, "ValueError")
  ELSE LET nav == navigate(d, segments) IN
       IF nav.err # NoErr THEN Raise(d, nav.err)
       ELSE IF IsDict(nav.parent)
         THEN InPlace(ReplaceAt(d, Front(segments), DictDel(nav.parent, nav.key[1].key)))
         ELSE InPlace(ReplaceAt(d, Front(segments), ListPop(nav.parent, nav.key[1].idx)))

apply_before(d, segments, new_val) ==
  IF segments = <<>> THEN Raise(d, "ValueError")
  ELSE LET nav == navigate(d, segments) IN
       IF nav.err # NoErr THEN Raise(d, nav.err)
       ELSE IF ~IsList(nav.parent) THEN Raise(d, "ValueError")
       ELSE InPlace(ReplaceAt(d, Front(segments),
                              ListInsert(nav.parent, nav.key[1].idx, new_val)))

\* an apply_after that reports a non-array parent as a wrong container kind
apply_after_TypeError(d, segments, new_val) ==
  IF segments = <<>> THEN Raise(d, "ValueError")
  ELSE LET nav == navigate(d, segments) IN
       IF nav.err # NoErr THEN Raise(d, nav.err)
       ELSE IF ~IsList(nav.parent) THEN Raise(d, "TypeError")
       ELSE InPlace(ReplaceAt(d, Front(segments),
                              ListInsert(nav.parent, nav.key[1].idx + 1, new_val)))

apply_after(d, segments, new_val) ==
  IF segments = <<>> THEN Raise(d, "ValueError")
  ELSE LET nav == navigate(d, segments) IN
       IF nav.err # NoErr THEN Raise(d, nav.err)
       ELSE IF ~IsList(nav.parent) THEN Raise(d, "ValueError")
       ELSE InPlace(ReplaceAt(d, Front(segments),
                              ListInsert(nav.parent, nav.key[1].idx + 1, new_val)))

apply_set_null(d, segments) ==
  IF segments = <<>> THEN Fresh(d, Null)
  ELSE LET nav == navigate(d, segments) IN
       IF nav.err # NoErr THEN Raise(d, nav.err)
       ELSE InPlace(ReplaceAt(d, Front(segments), SetItem(nav.parent, nav.key[1], Null)))

\* the element of a set of one element
Only(S) == CHOOSE x \in S : TRUE

\* sys.getrecursionlimit() of CPython 3.11: the interpreter counts the
\* calls in use (Python frames, and the calls of built-in callables that
\* enter the recursion check) and raises RecursionError in the call that
\* would be one more than this
RecursionLimit == 1000

\* the calls in use while main runs: the module and main
MainDepth == 2

\* the calls in use in a function that main calls
InCommand == MainDepth + 1

\* no bound on the elements of an array that count
AllItems == 0 - 1

\* the values one level below the values of S: the member values of its
\* objects and the elements of its arrays, of each array the first width
\* unless width is AllItems
Inner(S, width) ==
  UNION {{d.v[i] : i \in 1..(IF IsList(d) /\ width # AllItems /\ Len(d.v) > width
                               THEN width ELSE Len(d.v))} :
           d \in S}

RECURSIVE LevelsDown(_, _, _)
\* the values k levels below the values of S; the levels are halved so
\* that a document is walked to any depth
LevelsDown(S, k, width) ==
  IF S = {} \/ k <= 0 THEN S
  ELSE IF k = 1 THEN Inner(S, width)
  ELSE Only({ LevelsDown(half, k - (k \div 2), width) :
              half \in {LevelsDown(S, k \div 2, width)} })

\* d nests n containers or more, one in the other
Nests(d, n) ==
  IF n <= 0 THEN TRUE
  ELSE \E x \in LevelsDown({d}, n - 1, AllItems) : IsList(x) \/ IsDict(x)

\* copy.deepcopy(x), called from apply_copy, raises RecursionError: the
\* value at level n of x, a key or a member, is copied in call
\* InCommand + 1 + 2n, after the call that copies the container that holds
\* it; its copier is one call more, and the copier of a container makes a
\* further one
CopyRaises(x) ==
  \/ LevelsDown({x}, (RecursionLimit - InCommand - 2) \div 2 + 1, AllItems) # {}
  \/ \E y \in LevelsDown({x}, (RecursionLimit - InCommand - 3) \div 2 + 1, AllItems) :
        IsList(y) \/ IsDict(y)

\* the copy is made once the source is found and before the destination is
\* looked up
apply_copy(d, src_segs, dst_segs) ==
  LET nav == navigate(d, src_segs) IN
  IF nav.err # NoErr THEN Raise(d, nav.err)
  ELSE IF CopyRaises(nav.node) THEN Raise(d, "RecursionError")
  ELSE apply_set(d, dst_segs, nav.node)

RECURSIVE UpdateKeys(_, _, _)
UpdateKeys(result, patch, i) ==
  IF i > Len(patch.k) THEN result
  ELSE UpdateKeys(DictSet(result, patch.k[i], patch.v[i]), patch, i + 1)

\* a merge that does not recurse into keys present on both sides (dict.update)
deep_merge_shallow(base, patch) ==
  IF IsDict(base) /\ IsDict(patch) THEN UpdateKeys(base, patch, 1) ELSE patch

RECURSIVE deep_merge(_, _)
RECURSIVE MergeKeys(_, _, _)
\* the loop "for k, v in patch.items()" from patch key number i on
MergeKeys(result, patch, i) ==
  IF i > Len(patch.k) THEN result
  ELSE LET key == patch.k[i]
           x   == patch.v[i]
       IN  MergeKeys(DictSet(result, key,
                             IF KeyPos(result, key) > 0
                               THEN deep_merge(DictGet(result, key), x)
                               ELSE x),
                     patch, i + 1)

deep_merge(base, patch) ==
  IF IsDict(base) /\ IsDict(patch) THEN MergeKeys(base, patch, 1) ELSE patch

apply_merge(d, segs, patch) ==
  IF segs = <<>> THEN Fresh(d, deep_merge(d, patch))
  ELSE LET nav == navigate(d, segs) IN
       IF nav.err # NoErr THEN Raise(d, nav.err)
       ELSE InPlace(ReplaceAt(d, Front(segs),
                              SetItem(nav.parent, nav.key[1], deep_merge(nav.node, patch))))

-----------------------------------------------------------------------------
(* parse_path and parse_value.  A path string is the sequence of its       *)
(* characters, each a one-character string.                                *)

\* A character is a one-character string when it is printable and at most
\* U+00FF, or one of \t \n \f \r; any other character (a control character,
\* the backquote, a character beyond U+00FF) and the letter U are written
\* "U+" followed by the code point in six upper-case hexadecimal digits, as
\* in "U+000663" and "U+000055".  A string holds its characters in this
\* writing, so that the text U+000663 of eight characters is the string
\* "U+000055+000663".
Coded(c) == Len(c) > 1

\* the value of a hexadecimal digit
HexVal(c) ==
  CASE c = "0" -> 0 [] c = "1" -> 1 [] c = "2" -> 2 [] c = "3" -> 3 [] c = "4" -> 4
    [] c = "5" -> 5 [] c = "6" -> 6 [] c = "7" -> 7 [] c = "8" -> 8 [] c = "9" -> 9
    [] c \in {"A", "a"} -> 10 [] c \in {"B", "b"} -> 11 [] c \in {"C", "c"} -> 12
    [] c \in {"D", "d"} -> 13 [] c \in {"E", "e"} -> 14 [] c \in {"F", "f"} -> 15
    [] OTHER -> 0 - 1

RECURSIVE HexInt(_)
\* the number a string of hexadecimal digits denotes
HexInt(k) ==
  IF Len(k) = 0 THEN 0
  ELSE 16 * HexInt(SubSeq(k, 1, Len(k) - 1)) + HexVal(SubSeq(k, Len(k), Len(k)))

\* the code point of a coded character
CodePoint(c) == HexInt(SubSeq(c, 3, 8))

\* the characters U+0020..U+005F, U+0061..U+007E and U+00A0..U+00FF in code
\* point order
AsciiUpTo95 == " !\"#$%&'()*+,-./0123456789:;<=>?@ABCDEFGHIJKLMNOPQRSTUVWXYZ[\\]^_"

AsciiFrom97 == "abcdefghijklmnopqrstuvwxyz{|}~"

Latin1 == " ¡¢£¤¥¦§¨©ª«¬­®¯°±²³´µ¶·¸¹º»¼½¾¿ÀÁÂÃÄÅÆÇÈÉÊËÌÍÎÏÐÑÒÓÔÕÖ×ØÙÚÛÜÝÞßàáâãäåæçèéêëìíîïðñòóôõö÷øùúûüýþÿ"

RECURSIVE UpperHex(_, _)
\* width upper-case hexadecimal digits of n
UpperHex(n, width) ==
  IF width = 0 THEN ""
  ELSE UpperHex(n \div 16, width - 1) \o SubSeq("0123456789ABCDEF", (n % 16) + 1, (n % 16) + 1)

\* chr(code) in the writing of characters
CharOf(code) ==
  IF code \in 32..95 /\ code # 85 THEN SubSeq(AsciiUpTo95, code - 31, code - 31)
  ELSE IF code \in 97..126 THEN SubSeq(AsciiFrom97, code - 96, code - 96)
  ELSE IF code \in 160..255 THEN SubSeq(Latin1, code - 159, code - 159)
  ELSE IF code = 9 THEN "\t"
  ELSE IF code = 10 THEN "\n"
  ELSE IF code = 12 THEN "\f"
  ELSE IF code = 13 THEN "\r"
  ELSE "U+" \o UpperHex(code, 6)

\* the characters U+00A0..U+00FF
Latin1Chars == {CharOf(code) : code \in 160..255}

UpperHexDigits ==
  {"0", "1", "2", "3", "4", "5", "6", "7", "8", "9", "A", "B", "C", "D", "E", "F"}

\* a coded character starts at position i of the string x
CodedAt(x, i) ==
  /\ i >= 1
  /\ i + 7 <= Len(x)
  /\ SubSeq(x, i, i + 1) = "U+"
  /\ \A j \in (i + 2)..(i + 7) : SubSeq(x, j, j) \in UpperHexDigits
  /\ CodePoint(SubSeq(x, i, i + 7)) <= 1114111

RECURSIVE CharsFrom(_, _)
\* the characters of the string x from position i
CharsFrom(x, i) ==
  IF i > Len(x) THEN <<>>
  ELSE IF SubSeq(x, i, i) # "U" THEN <<SubSeq(x, i, i)>> \o CharsFrom(x, i + 1)
  ELSE IF CodedAt(x, i) THEN <<CharOf(CodePoint(SubSeq(x, i, i + 7)))>> \o CharsFrom(x, i + 8)
  ELSE <<"U+000055">> \o CharsFrom(x, i + 1)

\* a position near the middle of the string x where a character starts
CutPoint(x) ==
  CHOOSE p \in (Len(x) \div 2)..(Len(x) \div 2 + 7) :
    \A j \in (p - 7)..(p - 1) : ~CodedAt(x, j)

RECURSIVE Chars(_)
\* the characters of a string: a coded character is read as chr of its code
\* point, a letter U that starts none as the letter.  A long string is cut
\* in two where a character starts.
Chars(k) ==
  IF Len(k) <= 16 THEN CharsFrom(k, 1)
  ELSE Chars(SubSeq(k, 1, CutPoint(k) - 1)) \o Chars(SubSeq(k, CutPoint(k), Len(k)))

AsciiDigits == {"0", "1", "2", "3", "4", "5", "6", "7", "8", "9"}

\* the code points of the digit zero of every block of decimal digits
\* (category Nd) beyond U+00FF; its nine successors are the digits 1 to 9
DecimalZeros ==
  { 1632, 1776, 1984, 2406, 2534, 2662, 2790, 2918,
    3046, 3174, 3302, 3430, 3558, 3664, 3792, 3872,
    4160, 4240, 6112, 6160, 6470, 6608, 6784, 6800,
    6992, 7088, 7232, 7248, 42528, 43216, 43264, 43472,
    43504, 43600, 44016, 65296, 66720, 68912, 69734, 69872,
    69942, 70096, 70384, 70736, 70864, 71248, 71360, 71472,
    71904, 72016, 72784, 73040, 73120, 92768, 92864, 93008,
    120782, 120792, 120802, 120812, 120822, 123200, 123632, 125264,
    130032 }

\* str.isdecimal of one character; what \d matches and int() converts
isdecimal(c) ==
  \/ c \in AsciiDigits
  \/ Coded(c) /\ \E z \in DecimalZeros : CodePoint(c) \in z..(z + 9)

\* the characters up to U+00FF that str.isdigit accepts
Digits == AsciiDigits \cup {"²", "³", "¹"}

\* str.isdigit of one character; the runs are the code points beyond U+00FF
\* that it accepts although they are no decimal digits (superscripts,
\* subscripts, circled digits)
IsDigit(c) ==
  LET OtherDigitRuns ==
        { <<4969, 4977>>, <<6618, 6618>>, <<8304, 8304>>, <<8308, 8313>>,
          <<8320, 8329>>, <<9312, 9320>>, <<9332, 9340>>, <<9352, 9360>>,
          <<9450, 9450>>, <<9461, 9469>>, <<9471, 9471>>, <<10102, 10110>>,
          <<10112, 10120>>, <<10122, 10130>>, <<68160, 68163>>, <<69216, 69224>>,
          <<69714, 69722>>, <<127232, 127242>> }
  IN  \/ c \in Digits
      \/ Coded(c) /\ ( \/ isdecimal(c)
                      \/ \E r \in OtherDigitRuns : CodePoint(c) \in r[1]..r[2] )

DigitVal(c) ==
  IF Coded(c)
    THEN CodePoint(c) - (CHOOSE z \in DecimalZeros : CodePoint(c) \in z..(z + 9))
    ELSE CASE c = "0" -> 0 [] c = "1" -> 1 [] c = "2" -> 2 [] c = "3" -> 3 [] c = "4" -> 4
           [] c = "5" -> 5 [] c = "6" -> 6 [] c = "7" -> 7 [] c = "8" -> 8 [] c = "9" -> 9

\* str.isdigit: non-empty and every character a digit
isdigit(cs) == cs # <<>> /\ \A i \in 1..Len(cs) : IsDigit(cs[i])

\* sys.int_info.default_max_str_digits: int() converts no more digits
MaxStrDigits == 4300

\* int() raises ValueError on a digit that is no decimal digit, and on more
\* than MaxStrDigits digits
IntOk(cs) == Len(cs) <= MaxStrDigits /\ \A i \in 1..Len(cs) : isdecimal(cs[i])

RECURSIVE int(_)
int(cs) == IF cs = <<>> THEN 0 ELSE 10 * int(Front(cs)) + DigitVal(cs[Len(cs)])

DigitChar(n) ==
  CASE n = 0 -> "0" [] n = 1 -> "1" [] n = 2 -> "2" [] n = 3 -> "3" [] n = 4 -> "4"
    [] n = 5 -> "5" [] n = 6 -> "6" [] n = 7 -> "7" [] n = 8 -> "8" [] n = 9 -> "9"

\* an integer as str(i), f"{i}" and int.__repr__ write it
str(n) ==
  LET RECURSIVE Digs(_)
      Digs(m) == IF m < 10 THEN <<DigitChar(m)>> ELSE Digs(m \div 10) \o <<DigitChar(m % 10)>>
  IN  IF n < 0 THEN <<"-">> \o Digs(0 - n) ELSE Digs(n)

RECURSIVE Join(_)
\* the string made of the characters cs
Join(cs) ==
  IF cs = <<>> THEN ""
  ELSE IF Len(cs) = 1 THEN cs[1]
  ELSE Join(SubSeq(cs, 1, Len(cs) \div 2)) \o Join(SubSeq(cs, Len(cs) \div 2 + 1, Len(cs)))

\* the control characters that a JSON string must not hold unescaped
IsControl(c) == c \in {"\t", "\n", "\f", "\r"} \/ (Coded(c) /\ CodePoint(c) < 32)

\* the whitespace of str.strip: the characters written as themselves, and
\* the code points of the others
isspace(c) ==
  LET Whitespace == {" ", "\t", "\n", "\f", "\r", " "}
      SpaceCodes == {11, 28, 29, 30, 31, 133, 5760, 8232, 8233, 8239, 8287, 12288}
                      \cup (8192..8202)
  IN  c \in Whitespace \/ (Coded(c) /\ CodePoint(c) \in SpaceCodes)

RECURSIVE strip(_)
strip(cs) ==
  IF cs = <<>> THEN cs
  ELSE IF isspace(Head(cs)) THEN strip(Tail(cs))
  ELSE IF isspace(cs[Len(cs)]) THEN strip(Front(cs))
  ELSE cs

startswith(cs, prefix) == Len(cs) >= Len(prefix) /\ SubSeq(cs, 1, Len(prefix)) = prefix

\* s.index(c, i): least position >= i holding c, 0 when there is none (ValueError)
IndexFrom(cs, c, i) ==
  IF \E j \in i..Len(cs) : cs[j] = c
    THEN CHOOSE j \in i..Len(cs) : cs[j] = c /\ \A m \in i..(j - 1) : cs[m] # c
    ELSE 0

\* end of the key starting at i: least position >= i holding '.' or '[', else Len + 1
KeyEnd(cs, i) ==
  IF \E j \in i..Len(cs) : cs[j] \in {".", "["}
    THEN CHOOSE j \in i..Len(cs) : cs[j] \in {".", "["} /\ \A m \in i..(j - 1) : cs[m] \notin {".", "["}
    ELSE Len(cs) + 1

SkipDot_Never(cs, i) == i

SkipDot(cs, i) == IF i <= Len(cs) /\ cs[i] = "." THEN i + 1 ELSE i

RECURSIVE ParseLoop(_, _, _)
\* the while loop of parse_path at position i (1-based) with the segments so far
ParseLoop(cs, i, segments) ==
  IF i > Len(cs) THEN [err |-> NoErr, segs |-> segments]
  ELSE IF cs[i] = "["
    THEN LET j == IndexFrom(cs, "]", i) IN
         IF j = 0 THEN [err |-> "ValueError", segs |-> <<>>]
         ELSE IF ~isdigit(SubSeq(cs, i + 1, j - 1)) THEN [err |-> "ValueError", segs |-> <<>>]
         ELSE IF ~IntOk(SubSeq(cs, i + 1, j - 1)) THEN [err |-> "ValueError", segs |-> <<>>]
         ELSE ParseLoop(cs, SkipDot(cs, j + 1), Append(segments, I(int(SubSeq(cs, i + 1, j - 1)))))
    ELSE LET j == KeyEnd(cs, i) IN
         IF j = i THEN [err |-> "ValueError", segs |-> <<>>]
         ELSE ParseLoop(cs, SkipDot(cs, j), Append(segments, K(Join(SubSeq(cs, i, j - 1)))))

parse_path(path_str) ==
  LET s0 == strip(path_str) IN
  IF s0 = <<"r", "o", "o", "t">> THEN [err |-> NoErr, segs |-> <<>>]
  ELSE IF startswith(s0, <<"r", "o", "o", "t", ".">>) THEN ParseLoop(SubSeq(s0, 6, Len(s0)), 1, <<>>)
  ELSE IF startswith(s0, <<"r", "o", "o", "t", "[">>) THEN ParseLoop(SubSeq(s0, 5, Len(s0)), 1, <<>>)
  ELSE ParseLoop(s0, 1, <<>>)

\* ---- json.loads ----

\* ---- float(): decimal to the nearest double and back to its repr ----

\* a positive decimal number of any length: the digits d, most significant
\* first and without a zero at either end, and p, the power of ten of the
\* first digit
Decimal(d, p) == [d |-> d, p |-> p]

\* the digit at position i of ds, 0 beyond either end
DigitAt(ds, i) == IF i \in 1..Len(ds) THEN ds[i] ELSE 0

\* the digits ds, whose first is worth 10^p, without the zeros at the ends
Trimmed(ds, p) ==
  IF \A i \in 1..Len(ds) : ds[i] = 0 THEN Decimal(<<>>, 0)
  ELSE Only({ Decimal(SubSeq(ds, a, b), p - (a - 1)) :
              a \in {CHOOSE i \in 1..Len(ds) : ds[i] # 0 /\ \A j \in 1..(i - 1) : ds[j] = 0},
              b \in {CHOOSE i \in 1..Len(ds) : ds[i] # 0 /\ \A j \in (i + 1)..Len(ds) : ds[j] = 0} })

\* the whole number written with the digits ds
Whole(ds) == Trimmed(ds, Len(ds) - 1)

\* twice b: a digit of at least 5 carries into the digit before it
Double(b) ==
  Only({ Decimal(SubSeq(out, IF out[1] = 0 THEN 2 ELSE 1,
                        IF out[Len(out)] = 0 THEN Len(out) - 1 ELSE Len(out)),
                 IF out[1] = 0 THEN b.p ELSE b.p + 1) :
         out \in {Only({ [i \in 1..(Len(b.d) + 1) |-> ((2 * pad[i]) % 10) + (IF pad[i + 1] >= 5 THEN 1 ELSE 0)] :
                          pad \in {<<0>> \o b.d \o <<0>>} })} })

\* half of b: an odd digit leaves 5 to the digit after it
Halve(b) ==
  Only({ Decimal(SubSeq(out, IF out[1] = 0 THEN 2 ELSE 1,
                        IF out[Len(out)] = 0 THEN Len(out) - 1 ELSE Len(out)),
                 IF out[1] = 0 THEN b.p - 1 ELSE b.p) :
         out \in {Only({ [i \in 1..(Len(b.d) + 1) |-> (pad[i + 1] \div 2) + (IF pad[i] % 2 = 1 THEN 5 ELSE 0)] :
                          pad \in {<<0>> \o b.d \o <<0>>} })} })

RECURSIVE Scaled(_, _)
\* b * 2^k
Scaled(b, k) ==
  IF k = 0 THEN b
  ELSE IF k = 1 THEN Double(b)
  ELSE IF k = 0 - 1 THEN Halve(b)
  ELSE Only({ Scaled(half, k - (k \div 2)) : half \in {Scaled(b, k \div 2)} })

\* a < b
Below(a, b) ==
  \/ a.p < b.p
  \/ /\ a.p = b.p
     /\ \/ \E q \in 1..Len(a.d) :
             /\ q <= Len(b.d)
             /\ a.d[q] < b.d[q]
             /\ SubSeq(a.d, 1, q - 1) = SubSeq(b.d, 1, q - 1)
        \/ Len(a.d) < Len(b.d) /\ a.d = SubSeq(b.d, 1, Len(a.d))

RECURSIVE Succ(_)
\* the digits of n + 1 for the digits ds of the whole number n
Succ(ds) ==
  IF ds = <<>> THEN <<1>>
  ELSE IF ds[Len(ds)] < 9 THEN Append(Front(ds), ds[Len(ds)] + 1)
  ELSE Append(Succ(Front(ds)), 0)

RECURSIVE Pred(_)
\* the digits of n - 1 for the digits ds of the whole number n > 0
Pred(ds) ==
  IF ds[Len(ds)] > 0 THEN Append(Front(ds), ds[Len(ds)] - 1)
  ELSE Append(Pred(Front(ds)), 9)

\* the digits of 2 * n for the digits ds of the whole number n
Twice(ds) ==
  [i \in 1..(Len(ds) + 1) |->
     ((2 * DigitAt(ds, i - 1)) % 10) + (IF DigitAt(ds, i) >= 5 THEN 1 ELSE 0)]

\* 2^52 and 2^53: a double has 53 bits of mantissa
TwoTo52 == Scaled(Decimal(<<1>>, 0), 52)

TwoTo53 == Scaled(Decimal(<<1>>, 0), 53)

RECURSIVE Normal(_, _)
\* w = value / 2^e brought to 2^52 <= w < 2^53, or to the least exponent
\* -1074 of a double when the value is below 2^52 * 2^-1074
Normal(w, e) ==
  IF ~Below(w, TwoTo53) THEN Only({ Normal(half, e + 1) : half \in {Halve(w)} })
  ELSE IF Below(w, TwoTo52) /\ e > 0 - 1074 THEN Only({ Normal(twice, e - 1) : twice \in {Double(w)} })
  ELSE [w |-> w, e |-> e]

\* the digits of the whole part of w
IntDigits(w) == IF w.p < 0 THEN <<>> ELSE [i \in 1..(w.p + 1) |-> DigitAt(w.d, i)]

\* the first digit after the decimal point of w, and whether more follow
Tenths(w) == IF w.p < 0 - 1 THEN 0 ELSE DigitAt(w.d, w.p + 2)

PastTenths(w) == IF w.p < 0 - 1 THEN TRUE ELSE Len(w.d) > w.p + 2

\* round to nearest, ties to even: whether w rounds up to the next whole number
RoundsUp(w) ==
  \/ Tenths(w) > 5
  \/ Tenths(w) = 5 /\ PastTenths(w)
  \/ Tenths(w) = 5 /\ w.p >= 0 /\ DigitAt(w.d, w.p + 1) % 2 = 1

\* the nearest double m * 2^e of the decimal b (m = <<>>: zero;
\* e > 971: beyond the greatest double)
Nearest(b) ==
  Only({ Only({ IF m = TwoTo53.d THEN [m |-> TwoTo52.d, e |-> n.e + 1] ELSE [m |-> m, e |-> n.e] :
                m \in {IF RoundsUp(n.w) THEN Succ(IntDigits(n.w)) ELSE IntDigits(n.w)} }) :
         n \in {Only({ Normal(Scaled(b, 0 - e0), e0) :
                       e0 \in {IF ((b.p * 33219) \div 10000) - 53 < 0 - 1074 THEN 0 - 1074
                               ELSE ((b.p * 33219) \div 10000) - 53} })} })

\* the bounds of the decimals that read back as the double m * 2^e: half
\* way to the doubles next to it, the one below being half as far when m
\* is 2^52
LowEdge(m, e) ==
  IF m = TwoTo52.d /\ e > 0 - 1074 THEN Scaled(Whole(Pred(Twice(Twice(m)))), e - 2)
  ELSE Scaled(Whole(Pred(Twice(m))), e - 1)

HighEdge(m, e) == Scaled(Whole(Succ(Twice(m))), e - 1)

\* c reads back as the double: it lies between the bounds, or on one when
\* m is even
Within(c, low, high, even) ==
  \/ Below(low, c) /\ Below(c, high)
  \/ even /\ (c = low \/ c = high)

\* v cut to its first n digits, and the decimal of n digits next above
CutDown(v, n) == Trimmed(SubSeq(v.d, 1, n), v.p)

CutUp(v, n) ==
  Only({ Trimmed(up, IF Len(up) > n THEN v.p + 1 ELSE v.p) : up \in {Succ(SubSeq(v.d, 1, n))} })

\* n digits are enough to write a decimal that reads back as v
Enough(v, n, low, high, even) ==
  \/ Len(v.d) <= n
  \/ Within(CutDown(v, n), low, high, even)
  \/ Within(CutUp(v, n), low, high, even)

\* the decimal of n digits that reads back as v, the nearer to v of two
\* (the one with the even last digit when they are as near)
Picked(v, n, low, high, even) ==
  IF Len(v.d) <= n THEN v
  ELSE IF ~Within(CutUp(v, n), low, high, even) THEN CutDown(v, n)
  ELSE IF ~Within(CutDown(v, n), low, high, even) THEN CutUp(v, n)
  ELSE IF v.d[n + 1] < 5 THEN CutDown(v, n)
  ELSE IF v.d[n + 1] > 5 \/ Len(v.d) > n + 1 THEN CutUp(v, n)
  ELSE IF v.d[n] % 2 = 0 THEN CutDown(v, n)
  ELSE CutUp(v, n)

\* the shortest decimal that reads back as the double m * 2^e, the nearest
\* to it of those (float_repr_style 'short'); 17 digits always suffice
Shortest(m, e) ==
  Only({ Picked(v, CHOOSE n \in 1..17 : /\ Enough(v, n, low, high, even)
                                        /\ \A k \in 1..(n - 1) : ~Enough(v, k, low, high, even),
                low, high, even) :
         v \in {Scaled(Whole(m), e)}, low \in {LowEdge(m, e)}, high \in {HighEdge(m, e)},
         even \in {m[Len(m)] % 2 = 0} })

\* float(lit) of a literal of the JSON number syntax, as its repr: zero
\* keeps its sign, a literal that rounds beyond the greatest double is an
\* infinity and one that rounds to no double above zero is zero
float(lit) ==
  LET Pos(c, from) ==
        IF \E j \in from..Len(lit) : lit[j] \in c
          THEN CHOOSE j \in from..Len(lit) : lit[j] \in c /\ \A m \in from..(j - 1) : lit[m] \notin c
          ELSE Len(lit) + 1
      RECURSIVE LStrip(_)
      LStrip(ds) == IF ds # <<>> /\ Head(ds) = "0" THEN LStrip(Tail(ds)) ELSE ds
      RECURSIVE RStrip(_)
      RStrip(ds) == IF ds # <<>> /\ ds[Len(ds)] = "0" THEN RStrip(Front(ds)) ELSE ds
      Zeros(n) == [j \in 1..n |-> "0"]
      Sign(neg) == IF neg THEN <<"-">> ELSE <<>>
      \* an exponent of more than eight digits is as good as 10^8
      ExpVal(ds) == IF Len(ds) > 8 THEN 100000000 ELSE int(ds)
      Exp2(x) == IF x < 10 THEN <<"0">> \o str(x) ELSE str(x)
      \* repr of the digits ds with the decimal point after the first and
      \* the power of ten x ('r' format: exponent form below 1e-4 and from 1e16 on)
      Repr(neg, ds, x) ==
        Join(Sign(neg) \o
          (IF x < 0 - 4 \/ x >= 16
             THEN <<Head(ds)>> \o (IF Len(ds) > 1 THEN <<".">> \o Tail(ds) ELSE <<>>)
                    \o <<"e">> \o (IF x < 0 THEN <<"-">> \o Exp2(0 - x) ELSE <<"+">> \o Exp2(x))
           ELSE IF x < 0 THEN <<"0", ".">> \o Zeros(0 - x - 1) \o ds
           ELSE IF x >= Len(ds) - 1 THEN ds \o Zeros(x - Len(ds) + 1) \o <<".", "0">>
           ELSE SubSeq(ds, 1, x + 1) \o <<".">> \o SubSeq(ds, x + 2, Len(ds))))
      \* ds: the significant digits, x: the power of ten of the first; a
      \* literal of at least 10^309 or below 10^-324 is out of the range
      \* of the doubles whatever its digits
      Rounded(neg, ds, x) ==
        IF ds = <<>> THEN Join(Sign(neg) \o <<"0", ".", "0">>)
        ELSE IF x > 308 THEN Join(Sign(neg) \o <<"i", "n", "f">>)
        ELSE IF x < 0 - 324 THEN Join(Sign(neg) \o <<"0", ".", "0">>)
        ELSE Only({ IF near.m = <<>> THEN Join(Sign(neg) \o <<"0", ".", "0">>)
                    ELSE IF near.e > 971 THEN Join(Sign(neg) \o <<"i", "n", "f">>)
                    ELSE Only({ Repr(neg, [j \in 1..Len(s.d) |-> Head(str(s.d[j]))], s.p) :
                                s \in {Shortest(near.m, near.e)} }) :
                    near \in {Nearest(Decimal([j \in 1..Len(ds) |-> DigitVal(ds[j])], x))} })
      \* ip: the integer part, fp: the fraction, ex: the exponent
      Value(neg, ip, fp, ex) ==
        Rounded(neg, RStrip(LStrip(ip \o fp)),
                ex + Len(ip) - 1 - (Len(ip \o fp) - Len(LStrip(ip \o fp))))
      Exponent(neg, first, dot, e) ==
        Value(neg, SubSeq(lit, first, dot - 1), SubSeq(lit, dot + 1, e - 1),
              IF e > Len(lit) THEN 0
              ELSE IF lit[e + 1] = "-" THEN 0 - ExpVal(LStrip(SubSeq(lit, e + 2, Len(lit))))
              ELSE IF lit[e + 1] = "+" THEN ExpVal(LStrip(SubSeq(lit, e + 2, Len(lit))))
              ELSE ExpVal(LStrip(SubSeq(lit, e + 1, Len(lit)))))
      Point(neg, first, e) ==
        Exponent(neg, first, IF Pos({"."}, first) < e THEN Pos({"."}, first) ELSE e, e)
      Of(neg) == Point(neg, IF neg THEN 2 ELSE 1, Pos({"e", "E"}, 1))
  IN  Of(Head(lit) = "-")

\* json.loads, called where depth calls are in use, raises RecursionError
\* on the text of d: loads, decode, raw_decode and the scanner are four
\* calls, and each container, empty or not, is parsed in one call more
LoadsRaises(d, depth) == Nests(d, RecursionLimit - (depth + 4) + 1)

\* json.dumps without indent, called where depth calls are in use, raises
\* RecursionError on d: dumps, encode, iterencode and the encoder are four
\* calls, and each container, empty or not, is encoded in one call more
DumpsRaises(d, depth) == Nests(d, RecursionLimit - (depth + 4) + 1)

\* the first position from i on that holds no WHITESPACE of json.decoder
SkipWs(cs, i) ==
  LET JsonWs == {" ", "\t", "\n", "\r"} IN
  IF \E j \in i..Len(cs) : cs[j] \notin JsonWs
    THEN CHOOSE j \in i..Len(cs) : cs[j] \notin JsonWs /\ \A m \in i..(j - 1) : cs[m] \in JsonWs
    ELSE Len(cs) + 1

\* the character at position i, "" past the end
At(cs, i) == IF i \in 1..Len(cs) THEN cs[i] ELSE ""

\* s[i:i+len(w)] == w
Lit(cs, i, w) == i + Len(w) - 1 <= Len(cs) /\ SubSeq(cs, i, i + Len(w) - 1) = Chars(w)

\* the scan fails with JSONDecodeError
Bad == [ok |-> FALSE, v |-> Null, i |-> 0]

\* the scan fails with the ValueError of int()
BadInt == [ok |-> FALSE, v |-> Null, i |-> 0 - 1]

\* the scan fails with RecursionError: a container is nested too deep
BadDepth == [ok |-> FALSE, v |-> Null, i |-> 0 - 2]

Got(x, i) == [ok |-> TRUE, v |-> x, i |-> i]

\* the end of the run of ASCII digits that starts at p
RunEnd(cs, p) ==
  IF \E j \in p..Len(cs) : cs[j] \notin AsciiDigits
    THEN CHOOSE j \in p..Len(cs) :
           cs[j] \notin AsciiDigits /\ \A m \in p..(j - 1) : cs[m] \in AsciiDigits
    ELSE Len(cs) + 1

\* the start of the integer part of the number at i
IntStart(cs, i) == IF At(cs, i) = "-" THEN i + 1 ELSE i

\* the end of (0|[1-9][0-9]*) from a on
IntEnd(cs, a) ==
  IF At(cs, a) = "0" THEN a + 1
  ELSE IF At(cs, a) \in AsciiDigits THEN RunEnd(cs, a)
  ELSE a

\* the end of (\.[0-9]+)? from ie on
FracEnd(cs, ie) ==
  IF At(cs, ie) = "." /\ At(cs, ie + 1) \in AsciiDigits THEN RunEnd(cs, ie + 1) ELSE ie

\* the start of the digits of ([eE][-+]?[0-9]+)? from fe on, 0 without e
ExpStart(cs, fe) ==
  IF At(cs, fe) \in {"e", "E"}
    THEN (IF At(cs, fe + 1) \in {"+", "-"} THEN fe + 2 ELSE fe + 1)
    ELSE 0

\* the end of ([eE][-+]?[0-9]+)? from fe on
ExpEnd(cs, fe) ==
  IF ExpStart(cs, fe) > 0 /\ At(cs, ExpStart(cs, fe)) \in AsciiDigits
    THEN RunEnd(cs, ExpStart(cs, fe)) ELSE fe

\* the end of the number whose integer part starts at a
NumberEnd(cs, a) == ExpEnd(cs, FracEnd(cs, IntEnd(cs, a)))

\* -?(0|[1-9][0-9]*)(\.[0-9]+)?([eE][-+]?[0-9]+)? at position i: an int
\* when there is neither fraction nor exponent, else a float
match_number(cs, i) ==
  IF IntEnd(cs, IntStart(cs, i)) = IntStart(cs, i) THEN Bad
  ELSE IF NumberEnd(cs, IntStart(cs, i)) = IntEnd(cs, IntStart(cs, i))
    THEN (IF IntOk(SubSeq(cs, IntStart(cs, i), NumberEnd(cs, IntStart(cs, i)) - 1))
            THEN Got(JInt((IF At(cs, i) = "-" THEN 0 - 1 ELSE 1)
                            * int(SubSeq(cs, IntStart(cs, i), NumberEnd(cs, IntStart(cs, i)) - 1))),
                     NumberEnd(cs, IntStart(cs, i)))
            ELSE BadInt)
  ELSE Got(JFloat(float(SubSeq(cs, i, NumberEnd(cs, IntStart(cs, i)) - 1))),
           NumberEnd(cs, IntStart(cs, i)))

\* the four hexadecimal digits at i..i+3, or -1
Hex4(cs, i) ==
  IF i + 3 <= Len(cs) /\ \A j \in i..(i + 3) : ~Coded(cs[j]) /\ HexVal(cs[j]) >= 0
    THEN 4096 * HexVal(cs[i]) + 256 * HexVal(cs[i + 1])
           + 16 * HexVal(cs[i + 2]) + HexVal(cs[i + 3])
    ELSE 0 - 1

\* BACKSLASH of json.decoder
Unescape(c) ==
  CASE c = "\"" -> "\"" [] c = "\\" -> "\\" [] c = "/" -> "/" [] c = "b" -> CharOf(8)
    [] c = "f" -> "\f" [] c = "n" -> "\n" [] c = "r" -> "\r" [] c = "t" -> "\t"

RECURSIVE scanstring(_, _, _)
\* the string whose opening quote precedes position i, with the characters
\* collected so far (strict mode)
scanstring(cs, i, chunks) ==
  IF i > Len(cs) THEN Bad
  ELSE IF cs[i] = "\"" THEN Got(JStr(Join(chunks)), i + 1)
  ELSE IF IsControl(cs[i]) THEN Bad
  ELSE IF cs[i] # "\\" THEN scanstring(cs, i + 1, Append(chunks, cs[i]))
  ELSE IF i + 1 > Len(cs) THEN Bad
  ELSE IF cs[i + 1] = "u"
    THEN LET Escaped(uni, uni2) ==
               IF uni < 0 THEN Bad
               ELSE IF uni \in 55296..56319 /\ uni2 \in 56320..57343
                 THEN scanstring(cs, i + 12,
                        Append(chunks, CharOf(65536 + 1024 * (uni - 55296) + (uni2 - 56320))))
               ELSE scanstring(cs, i + 6, Append(chunks, CharOf(uni)))
         IN  Escaped(Hex4(cs, i + 2), IF Lit(cs, i + 6, "\\u") THEN Hex4(cs, i + 8) ELSE 0 - 1)
  ELSE IF cs[i + 1] \in {"\"", "\\", "/", "b", "f", "n", "r", "t"}
    THEN scanstring(cs, i + 2, Append(chunks, Unescape(cs[i + 1])))
  ELSE Bad

RECURSIVE scan_once(_, _, _)
RECURSIVE parse_array(_, _, _, _)
RECURSIVE parse_object(_, _, _, _)
RECURSIVE parse_object_next(_, _, _, _)
RECURSIVE parse_object_value(_, _, _, _)

\* the elements of an array from position i, where a value is expected;
\* calls counts the calls in use while the array is parsed
parse_array(cs, i, values, calls) ==
  Only({ IF ~r.ok THEN r
         ELSE IF At(cs, SkipWs(cs, r.i)) = "]"
           THEN Got(JArr(Append(values, r.v)), SkipWs(cs, r.i) + 1)
         ELSE IF At(cs, SkipWs(cs, r.i)) = ","
           THEN parse_array(cs, SkipWs(cs, SkipWs(cs, r.i) + 1), Append(values, r.v), calls)
         ELSE Bad :
         r \in {scan_once(cs, i, calls)} })

\* what follows a pair of an object at position e, d being the pairs so far
parse_object_next(cs, e, d, calls) ==
  IF At(cs, e) = "}" THEN Got(d, e + 1)
  ELSE IF At(cs, e) # "," THEN Bad
  ELSE IF At(cs, SkipWs(cs, e + 1)) # "\"" THEN Bad
  ELSE parse_object(cs, SkipWs(cs, e + 1), d, calls)

\* the value of the key that scanstring gave, from the colon on
parse_object_value(cs, key, pairs, calls) ==
  IF ~key.ok THEN Bad
  ELSE IF At(cs, SkipWs(cs, key.i)) # ":" THEN Bad
  ELSE Only({ IF ~r.ok THEN r
              ELSE parse_object_next(cs, SkipWs(cs, r.i), DictSet(pairs, key.v.s, r.v), calls) :
              r \in {scan_once(cs, SkipWs(cs, SkipWs(cs, key.i) + 1), calls)} })

\* the pairs of an object from position i, which holds the quote of a key;
\* a repeated key keeps its first place and takes the last value
parse_object(cs, i, pairs, calls) ==
  parse_object_value(cs, scanstring(cs, i + 1, <<>>), pairs, calls)

\* the value that starts at position i, scanned with calls calls in use:
\* an object or an array is parsed in one call more (empty or not), and
\* the call past RecursionLimit raises RecursionError
scan_once(cs, i, calls) ==
  IF i > Len(cs) THEN Bad
  ELSE IF cs[i] = "\"" THEN scanstring(cs, i + 1, <<>>)
  ELSE IF cs[i] \in {"{", "["} /\ calls + 1 > RecursionLimit THEN BadDepth
  ELSE IF cs[i] = "{"
    THEN (IF At(cs, SkipWs(cs, i + 1)) = "}" THEN Got(JObj(<<>>, <<>>), SkipWs(cs, i + 1) + 1)
          ELSE IF At(cs, SkipWs(cs, i + 1)) = "\""
            THEN parse_object(cs, SkipWs(cs, i + 1), JObj(<<>>, <<>>), calls + 1)
          ELSE Bad)
  ELSE IF cs[i] = "["
    THEN (IF At(cs, SkipWs(cs, i + 1)) = "]" THEN Got(JArr(<<>>), SkipWs(cs, i + 1) + 1)
          ELSE parse_array(cs, SkipWs(cs, i + 1), <<>>, calls + 1))
  ELSE IF Lit(cs, i, "null") THEN Got(Null, i + 4)
  ELSE IF Lit(cs, i, "true") THEN Got(JBool(TRUE), i + 4)
  ELSE IF Lit(cs, i, "false") THEN Got(JBool(FALSE), i + 5)
  ELSE Only({ IF m.ok \/ m = BadInt THEN m
              ELSE IF Lit(cs, i, "NaN") THEN Got(JFloat("nan"), i + 3)
              ELSE IF Lit(cs, i, "Infinity") THEN Got(JFloat("inf"), i + 8)
              ELSE IF Lit(cs, i, "-Infinity") THEN Got(JFloat("-inf"), i + 9)
              ELSE Bad :
              m \in {match_number(cs, i)} })

\* json.loads called where depth calls are in use: one value with
\* whitespace around it, JSONDecodeError otherwise; the ValueError of int()
\* and the RecursionError of the scanner leave it as they are.  loads,
\* decode, raw_decode and the scanner are four calls more.
json_loads(cs, depth) ==
  Only({ IF r = BadInt THEN [err |-> "ValueError", value |-> Null]
         ELSE IF r = BadDepth THEN [err |-> "RecursionError", value |-> Null]
         ELSE IF r.ok /\ SkipWs(cs, r.i) = Len(cs) + 1
           THEN [err |-> NoErr, value |-> r.v]
           ELSE [err |-> "JSONDecodeError", value |-> Null] :
         r \in {IF At(cs, 1) = "U+00FEFF" THEN Bad ELSE scan_once(cs, SkipWs(cs, 1), depth + 4)} })

\* the bytes of a character in the file system encoding (UTF-8 with
\* surrogateescape)
Size(c) ==
  IF Coded(c)
    THEN (IF CodePoint(c) < 128 \/ CodePoint(c) \in 56448..56575 THEN 1
          ELSE IF CodePoint(c) < 2048 THEN 2
          ELSE IF CodePoint(c) < 65536 THEN 3 ELSE 4)
    ELSE (IF c \in Latin1Chars THEN 2 ELSE 1)

RECURSIVE Bytes(_, _, _)
\* the bytes of the characters i..j of filepath
Bytes(filepath, i, j) ==
  IF i > j THEN 0
  ELSE IF i = j THEN Size(filepath[i])
  ELSE Bytes(filepath, i, (i + j) \div 2) + Bytes(filepath, (i + j) \div 2 + 1, j)

\* open() fails with exception e
OpenFailed(e) == [err |-> e, text |-> <<>>]

\* the end of the name that starts at i
NameEnd(filepath, i) ==
  IF \E j \in i..Len(filepath) : filepath[j] = "/"
    THEN CHOOSE j \in i..Len(filepath) :
           filepath[j] = "/" /\ \A m \in i..(j - 1) : filepath[m] # "/"
    ELSE Len(filepath) + 1

\* the directory the command is run in
WorkDir == <<Chars("tmp"), Chars("w")>>

\* the directories of the disk, each the names that lead to it from '/'
DiskDirs == {<<>>, <<Chars("dev")>>, <<Chars("tmp")>>, WorkDir}

\* the files of the disk that can be read
DiskFiles ==
  {<<Chars("dev"), Chars("null")>>, Append(WorkDir, Chars("v.json")),
   Append(WorkDir, Chars("bad.json"))}

\* what reading the file gives: /dev/null is empty, v.json holds [7] and
\* bad.json holds {
FileText(file_path) ==
  IF file_path = Append(WorkDir, Chars("v.json")) THEN Chars("[7]")
  ELSE IF file_path = Append(WorkDir, Chars("bad.json")) THEN Chars("{")
  ELSE <<>>

RECURSIVE Walk(_, _, _)
\* the rest of the path from position i, looked up in the directory dir
Walk(filepath, i, dir) ==
  IF i > Len(filepath) THEN OpenFailed("IsADirectoryError")
  ELSE Only({ IF name \in {<<>>, <<".">>} THEN Walk(filepath, j + 1, dir)
              ELSE IF name = <<".", ".">>
                THEN Walk(filepath, j + 1, IF dir = <<>> THEN dir ELSE Front(dir))
              ELSE IF Bytes(filepath, i, j - 1) > 255 THEN OpenFailed("OSError")
              ELSE IF Append(dir, name) \in DiskDirs THEN Walk(filepath, j + 1, Append(dir, name))
              ELSE IF Append(dir, name) \notin DiskFiles THEN OpenFailed("FileNotFoundError")
              ELSE IF j <= Len(filepath) THEN OpenFailed("NotADirectoryError")
              ELSE [err |-> NoErr, text |-> FileText(Append(dir, name))] :
              j \in {NameEnd(filepath, i)},
              name \in {SubSeq(filepath, i, NameEnd(filepath, i) - 1)} })

\* open(filepath) and read, on a disk that holds /dev/null and the working
\* directory /tmp/w with the file v.json and the file bad.json, and nothing
\* else.  The path is resolved as Linux does: component by component from
\* '/' or from the working directory, 255 bytes at most in a name and 4095
\* in the path.
ReadText(filepath) ==
  IF \E i \in 1..Len(filepath) : /\ Coded(filepath[i])
                                 /\ \/ CodePoint(filepath[i]) \in 55296..56447
                                    \/ CodePoint(filepath[i]) \in 56576..57343
    THEN OpenFailed("UnicodeEncodeError")
  ELSE IF \E i \in 1..Len(filepath) : filepath[i] = CharOf(0) THEN OpenFailed("ValueError")
  ELSE IF Len(filepath) = 0 THEN OpenFailed("FileNotFoundError")
  ELSE IF Bytes(filepath, 1, Len(filepath)) > 4095 THEN OpenFailed("OSError")
  ELSE Walk(filepath, 1, IF filepath[1] = "/" THEN <<>> ELSE WorkDir)

\* the value of a value argument, or the exception that leaves parse_value:
\* the content of the file after '@', else the JSON value the argument
\* denotes, else the argument as a string.  main calls parse_value, which
\* calls json.loads, or json.load that calls json.loads
parse_value(val_str) ==
  Only({ IF at /\ f.err # NoErr THEN [err |-> f.err, value |-> Null]
         ELSE Only({ IF ~at /\ r.err = "JSONDecodeError"
                       THEN [err |-> NoErr, value |-> JStr(Join(cs))] ELSE r :
                     r \in {json_loads(IF at THEN f.text ELSE cs,
                                       IF at THEN MainDepth + 2 ELSE MainDepth + 1)} }) :
         cs \in {Chars(val_str)},
         at \in {startswith(Chars(val_str), <<"@">>)},
         f \in {IF startswith(Chars(val_str), <<"@">>) THEN ReadText(Tail(Chars(val_str)))
                ELSE [err |-> NoErr, text |-> <<>>]} })

-----------------------------------------------------------------------------
(* json.dumps and the previews.  A text is a sequence of characters; what  *)
(* a command prints is the sequence of the texts of its print calls.       *)
(* Standard output encodes to UTF-8, which has no encoding for a surrogate *)
(* (U+D800..U+DFFF): printing a text that holds one raises                 *)
(* UnicodeEncodeError and writes nothing of that text.                     *)

RECURSIVE Concat(_)
\* the concatenation of a sequence of sequences
Concat(xs) ==
  IF xs = <<>> THEN <<>>
  ELSE IF Len(xs) = 1 THEN xs[1]
  ELSE Concat(SubSeq(xs, 1, Len(xs) \div 2)) \o Concat(SubSeq(xs, Len(xs) \div 2 + 1, Len(xs)))

C_PATH == Chars("U+00001B[36m")

C_TYPE == Chars("U+00001B[33m")

C_VAL == Chars("U+00001B[32m")

C_EMPTY == Chars("U+00001B[2m")

C_UNINF == Chars("U+00001B[31m")

C_NULL == Chars("U+00001B[35m")

C_ADD == Chars("U+00001B[32m")

C_DEL == Chars("U+00001B[31m")

C_MOD == Chars("U+00001B[33m")

C_UND == Chars("U+00001B[4m")

C_BOLD == Chars("U+00001B[1m")

C_DIM == Chars("U+00001B[2m")

C_RESET == Chars("U+00001B[0m")

\* the error handlers standard output is opened with: strict under a UTF-8
\* locale, surrogateescape under the C or POSIX locale
StdoutErrors == {"strict", "surrogateescape"}

\* UTF-8 encodes the text under the error handler errors: it holds no
\* surrogate, or under surrogateescape none but U+DC80..U+DCFF, which are
\* written as the bytes 0x80..0xFF
Encodable(text, errors) ==
  \A i \in 1..Len(text) :
     ~(/\ Coded(text[i])
       /\ CodePoint(text[i]) \in 55296..57343
       /\ ~(errors = "surrogateescape" /\ CodePoint(text[i]) \in 56448..56575))

\* the place of the first text that cannot be encoded, 0 when all can
FirstUnencodable(texts, errors) ==
  IF \A i \in 1..Len(texts) : Encodable(texts[i], errors) THEN 0
  ELSE CHOOSE i \in 1..Len(texts) :
         ~Encodable(texts[i], errors) /\ \A j \in 1..(i - 1) : Encodable(texts[j], errors)

\* the print calls with the texts given, in this order, on a standard
\* output with the error handler errors: the texts printed and the
\* exception of the first one that cannot be encoded
stdout_write(texts, errors) ==
  IF FirstUnencodable(texts, errors) = 0 THEN [err |-> NoErr, printed |-> texts]
  ELSE [err |-> "UnicodeEncodeError",
        printed |-> SubSeq(texts, 1, FirstUnencodable(texts, errors) - 1)]

\* the character U+0008
Backspace == CharOf(8)

LowerHex(n) == SubSeq("0123456789abcdef", n + 1, n + 1)

\* ESCAPE_DCT of json.encoder without the control characters that have
\* no short escape
ESCAPE_DCT ==
  [c \in {"\"", "\\", "\n", "\r", "\t", "\f", Backspace} |->
     IF c = "\"" THEN <<"\\", "\"">>
     ELSE IF c = "\\" THEN <<"\\", "\\">>
     ELSE IF c = "\n" THEN <<"\\", "n">>
     ELSE IF c = "\r" THEN <<"\\", "r">>
     ELSE IF c = "\t" THEN <<"\\", "t">>
     ELSE IF c = "\f" THEN <<"\\", "f">>
     ELSE <<"\\", "b">>]

\* what replaces the character c in a string literal
replace(c) ==
  IF c \in DOMAIN ESCAPE_DCT THEN ESCAPE_DCT[c]
  ELSE IF Coded(c) /\ CodePoint(c) < 32
    THEN <<"\\", "u", "0", "0", LowerHex(CodePoint(c) \div 16), LowerHex(CodePoint(c) % 16)>>
  ELSE <<c>>

\* the characters cs with the escapes of ESCAPE_DCT
Escaped(cs) == Concat([i \in 1..Len(cs) |-> replace(cs[i])])

\* py_encode_basestring: the JSON string literal of x with ensure_ascii=False
encode_basestring(x) == <<"\"">> \o Escaped(Chars(x)) \o <<"\"">>

\* the JSON text of a value that is no container: the literals,
\* int.__repr__, float.__repr__ and the string literal
dumps_atom(d) ==
  IF d.t = "null" THEN Chars("null")
  ELSE IF d.t = "boolean" THEN (IF d.n = 1 THEN Chars("true") ELSE Chars("false"))
  ELSE IF d.t = "integer" THEN str(d.n)
  ELSE IF d.t = "number"
    THEN (IF d.s = "nan" THEN Chars("NaN")
          ELSE IF d.s = "inf" THEN Chars("Infinity")
          ELSE IF d.s = "-inf" THEN Chars("-Infinity")
          ELSE Chars(d.s))
  ELSE encode_basestring(d.s)

RECURSIVE dumps(_)
\* json.dumps(d, ensure_ascii=False)
dumps(d) ==
  IF IsList(d) \/ IsDict(d)
    THEN (IF IsList(d) THEN <<"[">> ELSE <<"{">>)
           \o Concat([i \in 1..Len(d.v) |->
                        (IF i > 1 THEN <<",", " ">> ELSE <<>>)
                          \* a key is encoded as a string value is
                          \o (IF IsDict(d) THEN dumps(JStr(d.k[i])) \o <<":", " ">> ELSE <<>>)
                          \o dumps(d.v[i])])
           \o (IF IsList(d) THEN <<"]">> ELSE <<"}">>)
    ELSE dumps_atom(d)

newline_indent(n) == <<"\n">> \o [j \in 1..(2 * n) |-> " "]

\* the calls in use in the generator that encodes the document with an
\* indent: main calls a function that calls json.dumps, which calls encode,
\* which runs _iterencode and in it the generator of the document (or the
\* function calls write_json, which calls json.dump, which runs both)
EncodeRoot == InCommand + 4

\* the value x at the level (0 for the document) cannot be encoded with
\* an indent: the generator of a container runs in the call EncodeRoot +
\* level and, unless the container is empty, starts with a call of id();
\* floatstr is called by the generator one level up and makes a call too
EncodeRaises(x, level) ==
  (x.t = "number" \/ x.v # <<>>) /\ EncodeRoot + level + 1 > RecursionLimit

\* in place of a chunk: the encoder raises RecursionError instead of
\* yielding it
Raised == <<"RecursionError">>

RECURSIVE iterencode(_, _)
\* the chunks of JSONEncoder(indent=2, ensure_ascii=False).iterencode for a
\* value at _current_indent_level level, up to Raised when it raises
iterencode(d, level) ==
  IF EncodeRaises(d, level) THEN <<Raised>>
  ELSE IF IsList(d)
    THEN (IF d.v = <<>> THEN <<Chars("[]")>>
          \* an item of a list comes in one chunk with what precedes it,
          \* unless it is a container
          ELSE Concat([i \in 1..Len(d.v) |->
                         Only({ IF IsList(d.v[i]) \/ IsDict(d.v[i])
                                  THEN <<buf>> \o chunks
                                  ELSE IF chunks = <<Raised>> THEN chunks
                                  ELSE <<buf \o chunks[1]>> :
                                buf \in {(IF i = 1 THEN <<"[">> ELSE <<",">>)
                                           \o newline_indent(level + 1)},
                                chunks \in {iterencode(d.v[i], level + 1)} })])
                 \o <<newline_indent(level), <<"]">>>>)
  ELSE IF IsDict(d)
    THEN (IF d.v = <<>> THEN <<Chars("{}")>>
          ELSE <<<<"{">>, newline_indent(level + 1)>>
                 \o Concat([i \in 1..Len(d.v) |->
                              (IF i > 1 THEN <<<<",">> \o newline_indent(level + 1)>> ELSE <<>>)
                                \* a key is encoded as a string value is
                                \o iterencode(JStr(d.k[i]), level) \o <<<<":", " ">>>>
                                \o iterencode(d.v[i], level + 1)])
                 \o <<newline_indent(level), <<"}">>>>)
  ELSE <<dumps_atom(d)>>

\* json.dumps(d, indent=2, ensure_ascii=False), called by a function that
\* main calls, raises RecursionError
IndentRaises(d) ==
  \E x \in LevelsDown({d}, RecursionLimit - EncodeRoot, AllItems) :
     EncodeRaises(x, RecursionLimit - EncodeRoot)

\* json.dumps(d, indent=2, ensure_ascii=False) when it does not raise
dumps_indent(d) == Concat(iterencode(d, 0))

\* pretty.split('\n')
split(text) ==
  LET LineEnd(i) ==
        IF \E j \in i..Len(text) : text[j] = "\n"
          THEN CHOOSE j \in i..Len(text) : text[j] = "\n" /\ \A m \in i..(j - 1) : text[m] # "\n"
          ELSE Len(text) + 1
      RECURSIVE From(_)
      From(i) ==
        LET Line(j) ==
              <<SubSeq(text, i, j - 1)>> \o (IF j > Len(text) THEN <<>> ELSE From(j + 1))
        IN  Line(LineEnd(i))
  IN  From(1)

\* line.find(search): the first column (from 0) where search starts, or -1
find(line, search) ==
  IF \E c \in 0..(Len(line) - Len(search)) : SubSeq(line, c + 1, c + Len(search)) = search
    THEN CHOOSE c \in 0..(Len(line) - Len(search)) :
           /\ SubSeq(line, c + 1, c + Len(search)) = search
           /\ \A b \in 0..(c - 1) : SubSeq(line, b + 1, b + Len(search)) # search
    ELSE 0 - 1

\* the first line (from 0) that holds search, with the columns of the match
_find_first(lines, search) ==
  IF \E i \in 1..Len(lines) : find(lines[i], search) # 0 - 1
    THEN Only({ [found |-> TRUE, li |-> i - 1, cs |-> find(lines[i], search),
                 ce |-> find(lines[i], search) + Len(search)] :
                i \in {CHOOSE i \in 1..Len(lines) :
                         /\ find(lines[i], search) # 0 - 1
                         /\ \A j \in 1..(i - 1) : find(lines[j], search) = 0 - 1} })
    ELSE [found |-> FALSE, li |-> 0, cs |-> 0, ce |-> 0]

Abs(n) == IF n < 0 THEN 0 - n ELSE n

\* the texts _show_with_underline prints; lines is pretty.split('\n')
_show_with_underline(lines, line_idx, ul_start, ul_end, label, color) ==
  LET context == 3 IN
  Concat([i \in 1..Len(lines) |->
            IF Abs(i - 1 - line_idx) > context
              THEN (IF Abs(i - 1 - line_idx) = context + 1
                      THEN <<C_DIM \o Chars("  ...") \o C_RESET>>
                      ELSE <<>>)
            ELSE IF i - 1 = line_idx
              THEN << Chars("  ") \o SubSeq(lines[i], 1, ul_start) \o color \o C_UND
                        \o SubSeq(lines[i], ul_start + 1, ul_end) \o C_RESET
                        \o SubSeq(lines[i], ul_end + 1, Len(lines[i])),
                      [j \in 1..(2 + ul_start) |-> " "] \o color
                        \o [j \in 1..(ul_end - ul_start) |-> "~"] \o <<" ">> \o label \o C_RESET >>
            ELSE <<Chars("  ") \o lines[i]>>])

\* the line (from 0) of the bracket that closes the first bracket of line
\* open_li, by a depth count outside the strings
_find_closing_line(lines, open_li) ==
  LET first == lines[open_li + 1]
      Brackets(c) == c \in {"{", "["}
      open_char ==
        IF \E j \in 1..Len(first) : Brackets(first[j])
          THEN first[CHOOSE j \in 1..Len(first) :
                       Brackets(first[j]) /\ \A m \in 1..(j - 1) : ~Brackets(first[m])]
          ELSE ""
      close_char == IF open_char = "{" THEN "}" ELSE "]"
      RECURSIVE Scan(_, _, _, _, _)
      \* character ci of line li with the depth and the flags of the loop
      Scan(li, ci, depth, in_str, escaped) ==
        IF li >= Len(lines) THEN open_li
        ELSE IF ci > Len(lines[li + 1]) THEN Scan(li + 1, 1, depth, in_str, escaped)
        ELSE IF escaped THEN Scan(li, ci + 1, depth, in_str, FALSE)
        ELSE IF lines[li + 1][ci] = "\\" /\ in_str THEN Scan(li, ci + 1, depth, in_str, TRUE)
        ELSE IF lines[li + 1][ci] = "\"" THEN Scan(li, ci + 1, depth, ~in_str, FALSE)
        ELSE IF in_str THEN Scan(li, ci + 1, depth, in_str, FALSE)
        ELSE IF lines[li + 1][ci] = open_char THEN Scan(li, ci + 1, depth + 1, in_str, FALSE)
        ELSE IF lines[li + 1][ci] = close_char
          THEN (IF depth - 1 = 0 THEN li ELSE Scan(li, ci + 1, depth - 1, in_str, FALSE))
        ELSE Scan(li, ci + 1, depth, in_str, FALSE)
  IN  IF open_char = "" THEN open_li ELSE Scan(open_li, 1, 0, FALSE, FALSE)

\* the texts _show_insert_marker prints
_show_insert_marker(lines, open_line_idx, indent_str, new_json, mode) ==
  LET context == 2 IN
  Only({ Concat([i \in 1..Len(lines) |->
                   IF Abs(i - 1 - anchor) > context
                     THEN (IF Abs(i - 1 - anchor) = context + 1
                             THEN <<C_DIM \o Chars("  ...") \o C_RESET>>
                             ELSE <<>>)
                   ELSE IF i - 1 = anchor /\ mode = "before" THEN <<marker, Chars("  ") \o lines[i]>>
                   ELSE IF i - 1 = anchor /\ mode = "after" THEN <<Chars("  ") \o lines[i], marker>>
                   ELSE <<Chars("  ") \o lines[i]>>]) :
         anchor \in {IF mode = "before" THEN open_line_idx
                     ELSE _find_closing_line(lines, open_line_idx)},
         marker \in {Chars("  ") \o C_ADD \o indent_str \o new_json
                       \o Chars("  U+002190 INSERT HERE") \o C_RESET} })

\* from line li back over five lines to the line that holds bracket only,
\* li when there is none
back_to_bracket(lines, li, bracket) ==
  IF \E back \in 0..li :
       back > li - 5 /\ strip(lines[back + 1]) \in {<<bracket>>, <<bracket, ",">>}
    THEN CHOOSE back \in 0..li :
           /\ back > li - 5
           /\ strip(lines[back + 1]) \in {<<bracket>>, <<bracket, ",">>}
           /\ \A b \in (back + 1)..li :
                strip(lines[b + 1]) \notin {<<bracket>>, <<bracket, ",">>}
    ELSE li

\* the line (from 0) where the element val opens, if it is found
_find_element_line(lines, val) ==
  IF (IsDict(val) \/ IsList(val)) /\ (val.v = <<>> \/ IsDict(val.v[1]) \/ IsList(val.v[1]))
    THEN [found |-> FALSE, li |-> 0]
  ELSE Only({ IF ~found.found THEN [found |-> FALSE, li |-> 0]
              ELSE IF IsDict(val) \/ IsList(val)
                THEN [found |-> TRUE,
                      li |-> back_to_bracket(lines, found.li, IF IsDict(val) THEN "{" ELSE "[")]
              ELSE [found |-> TRUE, li |-> found.li] :
              \* the first pair of a dict, the first child of a list, the
              \* value itself otherwise
              found \in {_find_first(lines,
                           (IF IsDict(val)
                              THEN <<"\"">> \o Chars(val.k[1]) \o <<"\"", ":", " ">> ELSE <<>>)
                             \o dumps(IF IsDict(val) \/ IsList(val) THEN val.v[1] ELSE val))} })

\* Each preview gives the exception that ends it (NoErr when it returns) and
\* the texts it has printed.

\* what a preview prints when the value is not found in the text
NotLocated == <<Chars("  (could not locate value in JSON text)\n")>>

\* the lines around the match found, underlined from skip columns into it
underline_found(lines, found, skip, label, color) ==
  IF found.found
    THEN _show_with_underline(lines, found.li, found.cs + skip, found.ce, label, color)
    ELSE NotLocated

\* f'"{key}": ' when the last segment of the path is a key
key_prefix(key) ==
  IF key # <<>> /\ key[1].str
    THEN <<"\"">> \o Chars(key[1].key) \o Chars("\": ") ELSE <<>>

preview_set(d, segments, new_val, path_str, errors) ==
  Only({ IF nav.err # NoErr THEN [err |-> nav.err, printed |-> <<>>]
         ELSE IF \/ DumpsRaises(nav.node, InCommand) \/ DumpsRaises(new_val, InCommand)
                 \/ IndentRaises(d)
           THEN [err |-> "RecursionError", printed |-> <<>>]
         ELSE Only({ stdout_write(
                       <<<<>>>>
                         \o underline_found(lines,
                              _find_first(lines, key_prefix(nav.key) \o json[nav.node]),
                              Len(key_prefix(nav.key)),
                              Chars("U+002192 ") \o json[new_val], C_MOD)
                         \o << Chars("\n") \o C_BOLD \o Chars("[PREVIEW]") \o C_RESET
                                 \o Chars(" set ") \o C_PATH \o path_str \o C_RESET \o Chars(": ")
                                 \o C_DEL \o json[nav.node] \o C_RESET \o Chars(" U+002192 ")
                                 \o C_ADD \o json[new_val] \o C_RESET,
                               Chars("Run with -f to apply.\n") >>, errors) :
                     json \in {[x \in {nav.node, new_val} |-> dumps(x)]},
                     lines \in {split(dumps_indent(d))} }) :
         nav \in {navigate(d, segments)} })

preview_del(d, segments, path_str, errors) ==
  Only({ IF nav.err # NoErr THEN [err |-> nav.err, printed |-> <<>>]
         ELSE IF DumpsRaises(nav.node, InCommand) \/ IndentRaises(d)
           THEN [err |-> "RecursionError", printed |-> <<>>]
         ELSE Only({ stdout_write(
                       <<<<>>>>
                         \o (IF ~IsDict(nav.node) /\ ~IsList(nav.node)
                               THEN underline_found(lines,
                                      _find_first(lines, key_prefix(nav.key) \o old_json),
                                      0, Chars("U+002190 DELETE"), C_DEL)
                               ELSE << Chars("  Will delete ") \o C_DEL
                                         \o (IF Len(old_json) <= 60 THEN old_json
                                             ELSE SubSeq(old_json, 1, 57) \o Chars("..."))
                                         \o C_RESET,
                                       Chars("  at path ") \o C_PATH \o path_str \o C_RESET >>)
                         \o << Chars("\n") \o C_BOLD \o Chars("[PREVIEW]") \o C_RESET
                                 \o Chars(" del ") \o C_PATH \o path_str \o C_RESET \o Chars(": ")
                                 \o C_DEL
                                 \o SubSeq(old_json, 1,
                                           IF Len(old_json) > 60 THEN 60 ELSE Len(old_json))
                                 \o (IF Len(old_json) > 60 THEN Chars("...") ELSE <<>>)
                                 \o C_RESET,
                               Chars("Run with -f to apply.\n") >>, errors) :
                     old_json \in {dumps(nav.node)},
                     lines \in {split(dumps_indent(d))} }) :
         nav \in {navigate(d, segments)} })

RECURSIVE lstrip(_)
\* line.lstrip()
lstrip(line) == IF line # <<>> /\ isspace(Head(line)) THEN lstrip(Tail(line)) ELSE line

preview_insert(d, segments, new_val, path_str, mode, errors) ==
  Only({ IF nav.err # NoErr THEN [err |-> nav.err, printed |-> <<>>]
         ELSE IF ~IsList(nav.parent) THEN [err |-> "ValueError", printed |-> <<>>]
         ELSE IF DumpsRaises(new_val, InCommand) \/ IndentRaises(d)
           THEN [err |-> "RecursionError", printed |-> <<>>]
         ELSE Only({ stdout_write(
                       <<<<>>>>
                         \o Only({ IF ref.found
                                     THEN _show_insert_marker(lines, ref.li,
                                            [j \in 1..(Len(lines[ref.li + 1])
                                                         - Len(lstrip(lines[ref.li + 1]))) |-> " "],
                                            new_json, mode)
                                     ELSE << Chars("  Will insert ") \o C_ADD \o new_json \o C_RESET
                                               \o Chars(" at index ")
                                               \o str(IF mode = "before" THEN nav.key[1].idx
                                                      ELSE nav.key[1].idx + 1)
                                               \o Chars("\n") >> :
                                   ref \in {IF ~IsDict(nav.node) /\ ~IsList(nav.node)
                                              THEN _find_first(lines, dumps(nav.node))
                                              ELSE _find_element_line(lines, nav.node)} })
                         \o << Chars("\n") \o C_BOLD \o Chars("[PREVIEW]") \o C_RESET \o <<" ">>
                                 \o Chars(mode) \o <<" ">> \o C_PATH \o path_str \o C_RESET
                                 \o Chars(": ") \o C_ADD \o new_json \o C_RESET,
                               Chars("  Array length: ") \o str(Len(nav.parent.v))
                                 \o Chars(" U+002192 ") \o str(Len(nav.parent.v) + 1),
                               Chars("Run with -f to apply.\n") >>, errors) :
                     new_json \in {dumps(new_val)},
                     lines \in {split(dumps_indent(d))} }) :
         nav \in {navigate(d, segments)} })

preview_set_null(d, segments, path_str, errors) ==
  Only({ IF nav.err # NoErr THEN [err |-> nav.err, printed |-> <<>>]
         ELSE IF DumpsRaises(nav.node, InCommand) \/ IndentRaises(d)
           THEN [err |-> "RecursionError", printed |-> <<>>]
         ELSE Only({ stdout_write(
                       <<<<>>>>
                         \o underline_found(lines,
                              _find_first(lines, key_prefix(nav.key) \o old_json),
                              Len(key_prefix(nav.key)), Chars("U+002192 null"), C_MOD)
                         \o << Chars("\n") \o C_BOLD \o Chars("[PREVIEW]") \o C_RESET
                                 \o Chars(" set-null ") \o C_PATH \o path_str \o C_RESET
                                 \o Chars(": ") \o C_DEL \o old_json \o C_RESET
                                 \o Chars(" U+002192 ") \o C_NULL \o Chars("null") \o C_RESET,
                               Chars("Run with -f to apply.\n") >>, errors) :
                     old_json \in {dumps(nav.node)},
                     lines \in {split(dumps_indent(d))} }) :
         nav \in {navigate(d, segments)} })

preview_copy(d, src_segs, dst_segs, src_str, dst_str, errors) ==
  Only({ IF nav.err # NoErr THEN [err |-> nav.err, printed |-> <<>>]
         ELSE IF DumpsRaises(nav.node, InCommand)
           THEN [err |-> "RecursionError", printed |-> <<>>]
         ELSE Only({ stdout_write(
                       << <<>>,
                          Chars("  ") \o C_PATH \o src_str \o C_RESET,
                          Chars("    ") \o C_DIM
                            \o (IF Len(new_json) <= 80 THEN new_json
                                ELSE SubSeq(new_json, 1, 77) \o Chars("..."))
                            \o C_RESET,
                          Chars("  U+002192 ") \o C_PATH \o dst_str \o C_RESET,
                          Chars("\n") \o C_BOLD \o Chars("[PREVIEW]") \o C_RESET \o Chars(" copy ")
                            \o C_PATH \o src_str \o C_RESET \o Chars(" U+002192 ")
                            \o C_PATH \o dst_str \o C_RESET,
                          Chars("Run with -f to apply.\n") >>, errors) :
                     new_json \in {dumps(nav.node)} }) :
         nav \in {navigate(d, src_segs)} })

\* ', '.join of the keys of patch that are (held = TRUE) or are not in node
patch_keys(patch, node, held) ==
  Concat([i \in 1..Len(patch.k) |->
            IF (KeyPos(node, patch.k[i]) # 0) # held THEN <<>>
            ELSE (IF \E j \in 1..(i - 1) : (KeyPos(node, patch.k[j]) # 0) = held
                    THEN <<",", " ">> ELSE <<>>)
                   \o Chars(patch.k[i])])

preview_merge(d, segs, patch, path_str, patch_src, errors) ==
  Only({ IF nav.err # NoErr THEN [err |-> nav.err, printed |-> <<>>]
         ELSE IF ~(IsDict(patch) /\ IsDict(nav.node)) /\ DumpsRaises(patch, InCommand)
           THEN [err |-> "RecursionError", printed |-> <<<<>>>>]
         ELSE stdout_write(
                <<<<>>>>
                  \o (IF IsDict(patch) /\ IsDict(nav.node)
                        THEN Only({ (IF \E i \in 1..Len(patch.k) : KeyPos(nav.node, patch.k[i]) = 0
                                       THEN <<Chars("  ") \o C_ADD \o Chars("+ add:") \o C_RESET
                                                \o Chars("    ") \o added>>
                                       ELSE <<>>)
                                      \o (IF \E i \in 1..Len(patch.k) : KeyPos(nav.node, patch.k[i]) # 0
                                            THEN <<Chars("  ") \o C_MOD \o Chars("~ update:")
                                                     \o C_RESET \o Chars("  ") \o updated>>
                                            ELSE <<>>) :
                                    added \in {patch_keys(patch, nav.node, FALSE)},
                                    updated \in {patch_keys(patch, nav.node, TRUE)} })
                        ELSE Only({ <<Chars("  Replace ") \o C_PATH \o path_str \o C_RESET
                                        \o Chars(" with: ") \o C_ADD
                                        \o (IF Len(text) > 80
                                              THEN SubSeq(text, 1, 77) \o Chars("...") ELSE text)
                                        \o C_RESET>> :
                                    text \in {dumps(patch)} }))
                  \o << Chars("\n") \o C_BOLD \o Chars("[PREVIEW]") \o C_RESET \o Chars(" merge ")
                          \o C_PATH \o path_str \o C_RESET \o Chars(" U+002190 ")
                          \o C_ADD \o patch_src \o C_RESET,
                        Chars("Run with -f to apply.\n") >>, errors) :
         nav \in {navigate(d, segs)} })

-----------------------------------------------------------------------------
(* Bounds and input sets *)

MaxSteps == 1

MaxIdx == 2

MaxPathLen == 2

MaxLen == 3

Keys == {"a", "b"}

Idxs == (-MaxIdx)..MaxIdx

Segs == {K(x) : x \in Keys} \cup {I(i) : i \in Idxs}

Paths == UNION {[1..m -> Segs] : m \in 0..MaxPathLen}

IdxPaths == {<<I(i)>> : i \in Idxs}

CopyPairs == {p \in Paths \X Paths : Len(p[1]) + Len(p[2]) <= MaxPathLen + 1}

NewVals == {JInt(7), JArr(<<JStr("x")>>)}

Patches == {JObj(<<"b", "c">>, <<JObj(<<"c">>, <<JInt(3)>>), JInt(4)>>), JInt(7)}

Doc1 == JObj(<<"a", "b">>, <<JArr(<<JInt(1), JObj(<<"b">>, <<JInt(2)>>)>>), JObj(<<"b", "a">>, <<Null, JStr("x")>>)>>)

Doc2 == JArr(<<JArr(<<JInt(1), JInt(2)>>), JObj(<<"a">>, <<JBool(TRUE)>>)>>)

Doc3 == JArr(<<JInt(1)>>)

Doc4 == JStr("s")

Doc5 == JObj(<<"b", "a">>, <<JArr(<<>>), JObj(<<>>, <<>>)>>)

Doc6 == JArr(<<JInt(1), JArr(<<JInt(2), JInt(3), Null>>), JObj(<<"b", "a">>, <<JStr("y"), JArr(<<Null>>)>>)>>)

InitDocs == {Doc1, Doc2, Doc3, Doc4, Doc5, Doc6}

InitFiles == {Doc1, Doc2, Doc3}

\* "root", "a", "a[0]", "a[1].b", "b.a", "root[1]", "[0][5]", "c", "a..b", "a[x]"
PathStrs ==
  { <<"r", "o", "o", "t">>,
    <<"a">>,
    <<"a", "[", "0", "]">>,
    <<"a", "[", "1", "]", ".", "b">>,
    <<"b", ".", "a">>,
    <<"r", "o", "o", "t", "[", "1", "]">>,
    <<"[", "0", "]", "[", "5", "]">>,
    <<"c">>,
    <<"a", ".", ".", "b">>,
    <<"a", "[", "x", "]">> }

\* value arguments: a JSON text, a text that is no JSON and is taken as a
\* string, an @-argument naming a file that does not exist, and the JSON
\* text of a string that holds a lone surrogate, one that surrogateescape
\* encodes
ValStrs == {"7", "hello", "@none", "\"\\udc80\""}

InitArrays == {JArr(<<>>), JArr(<<JInt(1), JInt(2)>>)}

-----------------------------------------------------------------------------
(* The edit operations applied to one in-memory document.                  *)
(* last records the latest call: its arguments, the document before it,    *)
(* its outcome, and a summary (prior) of the call made before it.          *)

NoNav == [err |-> NoErr, at |-> 0, parent |-> Null, key |-> <<>>, node |-> Null]

NoPrior == [op |-> "init", segs |-> <<>>, err |-> NoErr, pre |-> Null]

NoCall == [op |-> "init", segs |-> <<>>, src |-> <<>>, val |-> Null, pre |-> Null,
           err |-> NoErr, ret |-> Null, same |-> FALSE, nav |-> NoNav, prior |-> NoPrior]

NoRun == [cmd |-> "init", path |-> <<>>, src |-> <<>>, val_str |-> "", patch |-> Null,
          force |-> FALSE, has_file |-> FALSE, errors |-> "strict", pre |-> Null, err |-> NoErr, out |-> "none", doc |-> Null]

\* no pure function has been applied yet
NoRes == [op |-> "init"]

\* no issues directory is in use
NoDirs == [exists |-> FALSE]

Prior == [op |-> last.op, segs |-> last.segs, err |-> last.err, pre |-> last.pre]

Call(op, segs, src, val, res) ==
  /\ data' = res.doc
  /\ last' = [op |-> op, segs |-> segs, src |-> src, val |-> val, pre |-> data,
              err |-> res.err, ret |-> res.ret, same |-> res.same, nav |-> NoNav,
              prior |-> Prior]
  /\ UNCHANGED <<file, run, arg, ans, dirs>>

\* the length of the longest array in a document
RECURSIVE MaxArr(_)
MaxArr(d) ==
  LET sub == {MaxArr(d.v[i]) : i \in 1..Len(d.v)}
      own == IF IsList(d) THEN Len(d.v) ELSE 0
  IN  IF sub = {} THEN own
      ELSE LET m == CHOOSE x \in sub : \A y \in sub : y <= x
           IN  IF own > m THEN own ELSE m

\* the document has just been loaded: every call gets a freshly read document,
\* as in main
Loaded == last.op = "init"

Navigate ==
  /\ Loaded
  /\ \E segs \in Paths :
       last' = [NoCall EXCEPT !.op = "navigate", !.segs = segs, !.pre = data,
                              !.err = navigate(data, segs).err,
                              !.nav = navigate(data, segs),
                              !.prior = Prior]
  /\ UNCHANGED <<data, steps, file, run, arg, ans, dirs>>

ApplySet ==
  /\ Loaded
  /\ \E segs \in Paths, x \in NewVals :
       Call("set", segs, <<>>, x, apply_set(data, segs, x))
  /\ UNCHANGED steps

ApplyDel ==
  /\ Loaded
  /\ \E segs \in Paths :
       Call("del", segs, <<>>, Null, apply_del(data, segs))
  /\ UNCHANGED steps

ApplyBefore ==
  /\ Loaded
  /\ \E segs \in Paths, x \in NewVals :
       Call("before", segs, <<>>, x, apply_before(data, segs, x))
  /\ UNCHANGED steps

ApplyAfter ==
  /\ Loaded
  /\ \E segs \in Paths, x \in NewVals :
       Call("after", segs, <<>>, x, apply_after(data, segs, x))
  /\ UNCHANGED steps

ApplySetNull ==
  /\ Loaded
  /\ \E segs \in Paths :
       Call("set_null", segs, <<>>, Null, apply_set_null(data, segs))
  /\ UNCHANGED steps

ApplyCopy ==
  /\ Loaded
  /\ \E p \in CopyPairs :
       Call("copy", p[2], p[1], Null, apply_copy(data, p[1], p[2]))
  /\ UNCHANGED steps

ApplyMerge ==
  /\ Loaded
  /\ \E segs \in Paths, patch \in Patches :
       Call("merge", segs, <<>>, patch, apply_merge(data, segs, patch))
  /\ UNCHANGED steps

PreviewInsert ==
  /\ Loaded
  /\ \E segs \in Paths, x \in NewVals :
       Call("preview_insert", segs, <<>>, x,
            [err |-> preview_insert(data, segs, x, Chars("p"), "before", "strict").err, doc |-> data,
             ret |-> Null, same |-> FALSE])
  /\ UNCHANGED steps

InitEdit ==
  /\ data \in InitDocs
  /\ last = NoCall
  /\ steps = 0
  /\ file = Null
  /\ run = NoRun
  /\ arg = Null
  /\ ans = NoRes
  /\ dirs = NoDirs

NextEdit ==
  \/ Navigate
  \/ ApplySet
  \/ ApplyDel
  \/ ApplyBefore
  \/ ApplyAfter
  \/ ApplySetNull
  \/ ApplyCopy
  \/ ApplyMerge
  \/ PreviewInsert

SpecEdit == InitEdit /\ [][NextEdit]_vars

-----------------------------------------------------------------------------
(* apply_copy on the documents of InitDocs and on documents nested as deep *)
(* as copy.deepcopy goes and one level deeper.                             *)

RECURSIVE Wrap(_, _)
\* x inside k arrays of one element, one in the other
Wrap(x, k) ==
  IF k <= 0 THEN x
  ELSE IF k = 1 THEN JArr(<<x>>)
  ELSE Only({ Wrap(half, k - (k \div 2)) : half \in {Wrap(x, k \div 2)} })

\* the least level at which a value is beyond the calls copy.deepcopy has
\* when apply_copy calls it
CopyLevels == (RecursionLimit - InCommand - 2) \div 2 + 1

\* JSON texts of CopyLevels - 1 and of CopyLevels brackets around 1, both
\* of which json.loads reads
DeepDocs == {Wrap(JInt(1), CopyLevels - 1), Wrap(JInt(1), CopyLevels)}

InitCopy ==
  /\ data \in InitDocs \cup DeepDocs
  /\ last = NoCall
  /\ steps = 0
  /\ file = Null
  /\ run = NoRun
  /\ arg = Null
  /\ ans = NoRes
  /\ dirs = NoDirs

NextCopy == ApplyCopy

SpecCopy == InitCopy /\ [][NextCopy]_vars

-----------------------------------------------------------------------------
(* Deletions and insertions applied one after another to one array, which  *)
(* is kept to at most MaxLen elements.                                     *)

SeqDel ==
  /\ \E segs \in IdxPaths :
       Call("del", segs, <<>>, Null, apply_del(data, segs))
  /\ UNCHANGED steps

SeqBefore ==
  /\ MaxArr(data) < MaxLen
  /\ \E segs \in IdxPaths, x \in NewVals :
       Call("before", segs, <<>>, x, apply_before(data, segs, x))
  /\ UNCHANGED steps

SeqAfter ==
  /\ MaxArr(data) < MaxLen
  /\ \E segs \in IdxPaths, x \in NewVals :
       Call("after", segs, <<>>, x, apply_after(data, segs, x))
  /\ UNCHANGED steps

InitSeq ==
  /\ data \in InitArrays
  /\ last = NoCall
  /\ steps = 0
  /\ file = Null
  /\ run = NoRun
  /\ arg = Null
  /\ ans = NoRes
  /\ dirs = NoDirs

NextSeq ==
  \/ SeqDel
  \/ SeqBefore
  \/ SeqAfter

SpecSeq == InitSeq /\ [][NextSeq]_vars

-----------------------------------------------------------------------------
(* main: one invocation of the command line tool on the document stored in *)
(* file.  has_file tells whether the file argument was given (otherwise    *)
(* the same text arrives on standard input and the result is printed).     *)
(* An invocation ends with                                                 *)
(*   err : NoErr or the uncaught exception that terminated it              *)
(*   out : "none", "preview" (the would-be change is reported), "stdout"   *)
(*         (a document is printed), "file" (a document is written) or      *)
(*         "cut" (the file is left with the start of a text)               *)
(*   doc : the document printed or written, the content left in the file   *)
(*         when out is "cut" (Null otherwise)                              *)
(* The file holds a JSON document or, after a write that failed, a text    *)
(* that is none.                                                           *)

Exit(e) == [err |-> e, out |-> "none", doc |-> Null]

Preview == [err |-> NoErr, out |-> "preview", doc |-> Null]

\* a file content that is no JSON document: the start of a text
Cut(text) == [t |-> "cut", n |-> 0, s |-> Join(text), k |-> <<>>, v |-> <<>>]

\* read_json: json.loads, called from read_json, on the text the file (or
\* standard input) holds; f is the document the text denotes or, for a text
\* that is none, the text
read_json(f) ==
  IF f.t = "cut"
    THEN [err |-> Only({ IF r.err = NoErr THEN "JSONDecodeError" ELSE r.err :
                         r \in {json_loads(Chars(f.s), InCommand)} }),
          data |-> Null]
  ELSE IF LoadsRaises(f, InCommand) THEN [err |-> "RecursionError", data |-> Null]
  ELSE [err |-> NoErr, data |-> f]

\* the place of the first chunk json.dump fails at, 0 when it fails at none:
\* the encoder raises before it yields the chunk, or the file, which is
\* opened with the strict handler, cannot encode it
FirstFailing(chunks) ==
  IF \A i \in 1..Len(chunks) : chunks[i] # Raised /\ Encodable(chunks[i], "strict") THEN 0
  ELSE CHOOSE i \in 1..Len(chunks) :
         /\ chunks[i] = Raised \/ ~Encodable(chunks[i], "strict")
         /\ \A j \in 1..(i - 1) : chunks[j] # Raised /\ Encodable(chunks[j], "strict")

\* write_json: open(filepath, 'w') empties the file, json.dump writes the
\* chunks one by one and the file is closed with the chunks written before
\* the first one that fails
write_json(d) ==
  Only({ IF FirstFailing(chunks) = 0 THEN [err |-> NoErr, out |-> "file", doc |-> d]
         ELSE [err |-> IF chunks[FirstFailing(chunks)] = Raised THEN "RecursionError"
                       ELSE "UnicodeEncodeError",
               out |-> "cut",
               doc |-> Cut(Concat(SubSeq(chunks, 1, FirstFailing(chunks) - 1)))] :
         chunks \in {iterencode(d, 0)} })

\* errors is the error handler of standard output
emit_result(d, has_file, force, errors) ==
  IF force /\ has_file THEN write_json(d)
  ELSE IF IndentRaises(d) THEN Exit("RecursionError")
  ELSE Only({ IF w.err # NoErr THEN Exit(w.err) ELSE [err |-> NoErr, out |-> "stdout", doc |-> d] :
              w \in {stdout_write(<<dumps_indent(d)>>, errors)} })

\* the end of an invocation that previews: p is the outcome of the preview
AfterPreview(p) == IF p.err # NoErr THEN Exit(p.err) ELSE Preview

\* a forced branch that emits the document even when apply_* raised
EmitData_Finally(res, has_file, errors) ==
  [err |-> res.err, out |-> IF has_file THEN "file" ELSE "stdout", doc |-> res.doc]

\* the forced branch of a command that ignores the value apply_* returns
\* and emits the object it read
EmitData(res, has_file, errors) ==
  IF res.err # NoErr THEN Exit(res.err) ELSE emit_result(res.doc, has_file, TRUE, errors)

\* the forced branch of merge, which rebinds data to the returned value
EmitReturned(res, has_file, errors) ==
  IF res.err # NoErr THEN Exit(res.err) ELSE emit_result(res.ret, has_file, TRUE, errors)

main_set(d, path_str, value_str, force, has_file, errors) ==
  IF read_json(d).err # NoErr THEN Exit(read_json(d).err)
  ELSE Only({ IF pp.err # NoErr THEN Exit(pp.err)
              ELSE IF pv.err # NoErr THEN Exit(pv.err)
              ELSE IF ~force
                THEN AfterPreview(preview_set(d, pp.segs, pv.value, path_str, errors))
              ELSE EmitData(apply_set(d, pp.segs, pv.value), has_file, errors) :
              pp \in {parse_path(path_str)}, pv \in {parse_value(value_str)} })

main_insert(cmd, d, path_str, value_str, force, has_file, errors) ==
  IF read_json(d).err # NoErr THEN Exit(read_json(d).err)
  ELSE Only({ IF pp.err # NoErr THEN Exit(pp.err)
              ELSE IF pv.err # NoErr THEN Exit(pv.err)
              ELSE IF ~force
                THEN AfterPreview(preview_insert(d, pp.segs, pv.value, path_str, cmd, errors))
              ELSE EmitData(IF cmd = "before" THEN apply_before(d, pp.segs, pv.value)
                                              ELSE apply_after(d, pp.segs, pv.value),
                            has_file, errors) :
              pp \in {parse_path(path_str)}, pv \in {parse_value(value_str)} })

main_del(d, path_str, force, has_file, errors) ==
  IF read_json(d).err # NoErr THEN Exit(read_json(d).err)
  ELSE Only({ IF pp.err # NoErr THEN Exit(pp.err)
              ELSE IF ~force THEN AfterPreview(preview_del(d, pp.segs, path_str, errors))
              ELSE EmitData(apply_del(d, pp.segs), has_file, errors) :
              pp \in {parse_path(path_str)} })

main_set_null(d, path_str, force, has_file, errors) ==
  IF read_json(d).err # NoErr THEN Exit(read_json(d).err)
  ELSE Only({ IF pp.err # NoErr THEN Exit(pp.err)
              ELSE IF ~force THEN AfterPreview(preview_set_null(d, pp.segs, path_str, errors))
              ELSE EmitData(apply_set_null(d, pp.segs), has_file, errors) :
              pp \in {parse_path(path_str)} })

main_copy(d, src_str, dst_str, force, has_file, errors) ==
  IF read_json(d).err # NoErr THEN Exit(read_json(d).err)
  ELSE Only({ IF ps.err # NoErr THEN Exit(ps.err)
              ELSE IF pd.err # NoErr THEN Exit(pd.err)
              ELSE IF ~force
                THEN AfterPreview(preview_copy(d, ps.segs, pd.segs, src_str, dst_str, errors))
              ELSE EmitData(apply_copy(d, ps.segs, pd.segs), has_file, errors) :
              ps \in {parse_path(src_str)}, pd \in {parse_path(dst_str)} })

\* the patch source names a file that holds the document patch, which
\* json.load, called from main, reads once the path is parsed
main_merge(d, path_str, patch, patch_src, force, has_file, errors) ==
  IF read_json(d).err # NoErr THEN Exit(read_json(d).err)
  ELSE Only({ IF pp.err # NoErr THEN Exit(pp.err)
              ELSE IF LoadsRaises(patch, InCommand) THEN Exit("RecursionError")
              ELSE IF ~force
                THEN AfterPreview(preview_merge(d, pp.segs, patch, path_str, patch_src, errors))
              ELSE EmitReturned(apply_merge(d, pp.segs, patch), has_file, errors) :
              pp \in {parse_path(path_str)} })

\* the error handlers of standard output the invocations are run with
MainErrors == StdoutErrors

\* one invocation: run records the command line (val_str is the value
\* argument, patch the document read from the patch source of merge), the
\* document read and how the invocation ended
Invoke(cmd, path_str, src_str, val_str, patch, force, has_file, errors, res) ==
  /\ run' = [cmd |-> cmd, path |-> path_str, src |-> src_str,
             val_str |-> val_str, patch |-> patch,
             force |-> force, has_file |-> has_file, errors |-> errors, pre |-> file,
             err |-> res.err, out |-> res.out, doc |-> res.doc]
  /\ file' = IF res.out \in {"file", "cut"} THEN res.doc ELSE file
  /\ steps' = steps + 1
  /\ UNCHANGED <<data, last, arg, ans, dirs>>

\* a further invocation follows one that changed the file; after one that
\* left the file as it was it would be an invocation on the same file
MayInvoke == steps < MaxSteps /\ (run.cmd = "init" \/ file # run.pre)

MainSet ==
  /\ MayInvoke
  /\ \E path_str \in PathStrs, value_str \in ValStrs, force \in BOOLEAN, has_file \in BOOLEAN,
        errors \in MainErrors :
       Invoke("set", path_str, <<>>, value_str, Null, force, has_file, errors,
              main_set(file, path_str, value_str, force, has_file, errors))

MainInsert ==
  /\ MayInvoke
  /\ \E cmd \in {"before", "after"}, path_str \in PathStrs, value_str \in ValStrs,
        force \in BOOLEAN, has_file \in BOOLEAN, errors \in MainErrors :
       Invoke(cmd, path_str, <<>>, value_str, Null, force, has_file, errors,
              main_insert(cmd, file, path_str, value_str, force, has_file, errors))

MainDel ==
  /\ MayInvoke
  /\ \E path_str \in PathStrs, force \in BOOLEAN, has_file \in BOOLEAN,
        errors \in MainErrors :
       Invoke("del", path_str, <<>>, "", Null, force, has_file, errors,
              main_del(file, path_str, force, has_file, errors))

MainSetNull ==
  /\ MayInvoke
  /\ \E path_str \in PathStrs, force \in BOOLEAN, has_file \in BOOLEAN,
        errors \in MainErrors :
       Invoke("set-null", path_str, <<>>, "", Null, force, has_file, errors,
              main_set_null(file, path_str, force, has_file, errors))

MainCopy ==
  /\ MayInvoke
  /\ \E src_str \in PathStrs, dst_str \in PathStrs, force \in BOOLEAN, has_file \in BOOLEAN,
        errors \in MainErrors :
       Invoke("copy", dst_str, src_str, "", Null, force, has_file, errors,
              main_copy(file, src_str, dst_str, force, has_file, errors))

MainMerge ==
  /\ MayInvoke
  /\ \E path_str \in PathStrs, patch \in Patches, force \in BOOLEAN, has_file \in BOOLEAN,
        errors \in MainErrors :
       Invoke("merge", path_str, <<>>, "", patch, force, has_file, errors,
              main_merge(file, path_str, patch, Chars("patch.json"), force, has_file, errors))

InitMain ==
  /\ file \in InitFiles
  /\ run = NoRun
  /\ steps = 0
  /\ data = Null
  /\ last = NoCall
  /\ arg = Null
  /\ ans = NoRes
  /\ dirs = NoDirs

NextMain ==
  \/ MainSet
  \/ MainInsert
  \/ MainDel
  \/ MainSetNull
  \/ MainCopy
  \/ MainMerge

SpecMain == InitMain /\ [][NextMain]_vars

-----------------------------------------------------------------------------
(* deep_merge applied to a base and a patch drawn from MergeVals *)

ExBase == JObj(<<"a", "b">>, <<JInt(1), JObj(<<"c">>, <<JInt(2)>>)>>)

ExPatch == JObj(<<"b", "e">>, <<JObj(<<"d">>, <<JInt(3)>>), JInt(4)>>)

ExResult == JObj(<<"a", "b", "e">>, <<JInt(1), JObj(<<"c", "d">>, <<JInt(2), JInt(3)>>), JInt(4)>>)

MergeVals ==
  { JInt(1), Null, JArr(<<JInt(1)>>), JObj(<<>>, <<>>),
    JObj(<<"a">>, <<JInt(1)>>),
    JObj(<<"b">>, <<JInt(5)>>),
    ExBase, ExPatch,
    JObj(<<"b", "a">>, <<JObj(<<"c">>, <<JObj(<<"x">>, <<JInt(1)>>)>>), JArr(<<JInt(1)>>)>>),
    JObj(<<"c", "a">>, <<JInt(1), JObj(<<"z">>, <<JInt(2)>>)>>),
    JObj(<<"a">>, <<JObj(<<"a">>, <<JObj(<<"a">>, <<JInt(1)>>)>>)>>),
    JObj(<<"a">>, <<JObj(<<"a", "z">>, <<JObj(<<"b">>, <<JInt(2)>>), JArr(<<>>)>>)>>) }

DeepMerge ==
  /\ steps < MaxSteps
  /\ \E patch \in MergeVals :
       Call("deep_merge", <<>>, <<>>, patch, Fresh(data, deep_merge(data, patch)))
  /\ steps' = steps + 1

InitMerge ==
  /\ data \in MergeVals
  /\ last = NoCall
  /\ steps = 0
  /\ file = Null
  /\ run = NoRun
  /\ arg = Null
  /\ ans = NoRes
  /\ dirs = NoDirs

NextMerge == DeepMerge

SpecMerge == InitMerge /\ [][NextMerge]_vars

-----------------------------------------------------------------------------
(* parse_path applied to path strings: the strings of PathStrs and         *)
(* PathProbes, and the strings written for the segment lists of SegSeqs    *)

RECURSIVE PathTail(_)
PathTail(segs) ==
  IF segs = <<>> THEN <<>>
  ELSE LET h == Head(segs)
           piece == IF h.str THEN <<".">> \o Chars(h.key) ELSE <<"[">> \o str(h.idx) \o <<"]">>
       IN  piece \o PathTail(Tail(segs))

\* 'root' followed by '.key' for each key and '[i]' for each index
PathOf(segs) == <<"r", "o", "o", "t">> \o PathTail(segs)

PathKeys == {"a", "a ", " a", "a\t", " ", "root", "0", "a]"}

PathIdxs == {0, 1, 12}

PathSegs == {K(x) : x \in PathKeys} \cup {I(i) : i \in PathIdxs}

SegSeqs == UNION {[1..m -> PathSegs] : m \in 0..MaxPathLen}

\* "a[11...1]" with one digit more than int() converts
LongIndexPath == <<"a", "[">> \o [i \in 1..(MaxStrDigits + 1) |-> "1"] \o <<"]">>

\* "users[0].name", "root[0].key", "a.", "root.", "a[0]b", "a.[0]", "a[0].[1]",
\* ".a", "root..a", "a[", "a[]", " a.b ", "root.root", a tab before "a",
\* "a[N]" for N an Arabic-Indic three, a superscript two and a
\* full-width 1 followed by 2, and LongIndexPath
PathProbes ==
  { LongIndexPath,
    <<"u", "s", "e", "r", "s", "[", "0", "]", ".", "n", "a", "m", "e">>,
    <<"r", "o", "o", "t", "[", "0", "]", ".", "k", "e", "y">>,
    <<"a", ".">>,
    <<"r", "o", "o", "t", ".">>,
    <<"a", "[", "0", "]", "b">>,
    <<"a", ".", "[", "0", "]">>,
    <<"a", "[", "0", "]", ".", "[", "1", "]">>,
    <<".", "a">>,
    <<"r", "o", "o", "t", ".", ".", "a">>,
    <<"a", "[">>,
    <<"a", "[", "]">>,
    <<" ", "a", ".", "b", " ">>,
    <<"r", "o", "o", "t", ".", "r", "o", "o", "t">>,
    <<"\t", "a">>,
    <<"a", "[", "U+000663", "]">>,
    <<"a", "[", "²", "]">>,
    <<"a", "[", "U+00FF11", "2", "]">> }

\* arg is the call's argument: the string, and the segment list it was
\* written for (built = TRUE) if any
ParseCall(built, segs, path_str) ==
  LET pp == parse_path(path_str) IN
  /\ ans.op = "init"
  /\ arg' = [built |-> built, from |-> segs, path |-> path_str]
  /\ ans' = [op |-> "parse_path", err |-> pp.err, segs |-> pp.segs]
  /\ UNCHANGED <<data, last, steps, file, run, dirs>>

ParsePath == \E path_str \in PathStrs \cup PathProbes : ParseCall(FALSE, <<>>, path_str)

ParseBuilt == \E segs \in SegSeqs : ParseCall(TRUE, segs, PathOf(segs))

InitPath ==
  /\ data = Null
  /\ last = NoCall
  /\ steps = 0
  /\ file = Null
  /\ run = NoRun
  /\ arg = Null
  /\ ans = NoRes
  /\ dirs = NoDirs

NextPath ==
  \/ ParsePath
  \/ ParseBuilt

SpecPath == InitPath /\ [][NextPath]_vars

-----------------------------------------------------------------------------
(* flatten, sig and infer_nulls.  A row is [path, type, value]: the path   *)
(* is a sequence of characters; the value is the leaf itself, Null for     *)
(* Python's None, or the string marker "(empty)" / "(null)".               *)

Row(path, type_name, value) == [path |-> path, type |-> type_name, value |-> value]

RECURSIVE flatten(_, _, _)
RECURSIVE FlattenItems(_, _, _, _)
\* the rows of the children of a container from its i-th child on
FlattenItems(d, path, root_level, i) ==
  IF i > Len(d.v) THEN <<>>
  ELSE LET child == IF IsDict(d)
                      THEN IF root_level THEN Chars(d.k[i]) ELSE path \o <<".">> \o Chars(d.k[i])
                      ELSE path \o <<"[">> \o str(i - 1) \o <<"]">>
       IN  flatten(d.v[i], child, FALSE) \o FlattenItems(d, path, root_level, i + 1)

flatten(d, path, root_level) ==
  IF IsDict(d)
    THEN <<Row(path, "object", IF d.v # <<>> THEN Null ELSE JStr("(empty)"))>>
           \o FlattenItems(d, path, root_level, 1)
  ELSE IF IsList(d)
    THEN <<Row(path, "array", IF d.v # <<>> THEN Null ELSE JStr("(empty)"))>>
           \o FlattenItems(d, path, root_level, 1)
  ELSE <<Row(path, get_type_name(d), d)>>

\* end of the run of digits starting at i: least position >= i not holding a digit
DigitsEnd(cs, i) ==
  IF \E j \in i..Len(cs) : ~isdecimal(cs[j])
    THEN CHOOSE j \in i..Len(cs) : ~isdecimal(cs[j]) /\ \A m \in i..(j - 1) : isdecimal(cs[m])
    ELSE Len(cs) + 1

RECURSIVE sig(_)
\* _IDX.sub('[*]', path): every '[' digits ']' becomes '[*]'
sig(path) ==
  IF path = <<>> THEN <<>>
  ELSE IF Head(path) = "["
    THEN LET e == DigitsEnd(path, 2)
         IN  IF e > 2 /\ e <= Len(path) /\ path[e] = "]"
               THEN <<"[", "*", "]">> \o sig(SubSeq(path, e + 1, Len(path)))
               ELSE <<"[">> \o sig(Tail(path))
  ELSE <<Head(path)>> \o sig(Tail(path))

\* the first loop of infer_nulls skips this row
Skipped(row) ==
  \/ row.value = Null
  \/ row.value = JStr("(empty)")
  \/ row.type \in {"null", "object", "array"}

RECURSIVE KnownGet(_, _, _)
\* known.get(s) after the first loop of infer_nulls over rows[i..]: the type
\* of the first row that is not skipped and has signature s, "" for None
KnownGet(rows, s, i) ==
  IF i > Len(rows) THEN ""
  ELSE IF ~Skipped(rows[i]) /\ sig(rows[i].path) = s THEN rows[i].type
  ELSE KnownGet(rows, s, i + 1)

infer_nulls(rows) ==
  [i \in 1..Len(rows) |->
     IF rows[i].type = "null" /\ rows[i].value = Null
       THEN LET inferred == KnownGet(rows, sig(rows[i].path), 1) IN
            Row(rows[i].path, IF inferred # "" THEN inferred ELSE "unknown", JStr("(null)"))
       ELSE rows[i]]

FlatKeys == {"a", "b", "root"}

FlatVals ==
  { JInt(1), JBool(TRUE), Null, JStr("(empty)"), JStr("s"), JArr(<<>>), JObj(<<>>, <<>>),
    JObj(<<"x">>, <<Null>>), JObj(<<"x">>, <<JStr("(empty)")>>), JObj(<<"x">>, <<JInt(1)>>),
    JArr(<<Null, JBool(TRUE)>>) }

\* a string that holds a lone surrogate, which only surrogateescape encodes
LoneSurrogate == JStr("U+00DC80")

\* the documents: a value of FlatVals, an array of up to MaxLen of them, or an
\* object with one or two keys of FlatKeys holding them
FlatDocs ==
  FlatVals
    \cup {JArr(vs) : vs \in UNION {[1..m -> FlatVals] : m \in 1..MaxLen}}
    \cup {JObj(<<k>>, <<v>>) : k \in FlatKeys, v \in FlatVals}
    \cup {JObj(<<ks[1], ks[2]>>, vs) :
            ks \in {p \in FlatKeys \X FlatKeys : p[1] # p[2]}, vs \in FlatVals \X FlatVals}
    \cup {LoneSurrogate}

\* schema_rows: the first row of every (signature, type) pair, under its
\* signature and without its value unless that is a marker
schema_rows(rows) ==
  LET firsts == {i \in 1..Len(rows) :
                   \A j \in 1..(i - 1) :
                     <<sig(rows[j].path), rows[j].type>> # <<sig(rows[i].path), rows[i].type>>}
      Shown(row) == Row(sig(row.path), row.type,
                        IF row.value \in {Null, JStr("(empty)"), JStr("(null)")}
                          THEN row.value ELSE Null)
      picked == [i \in 1..Len(rows) |-> i \in firsts]
      RECURSIVE Pick(_)
      Pick(i) == IF i > Len(rows) THEN <<>>
                 ELSE (IF picked[i] THEN <<Shown(rows[i])>> ELSE <<>>) \o Pick(i + 1)
  IN  Pick(1)

\* filter_rows: the rows at prefix or below it
filter_rows(rows, prefix) ==
  LET Under(row) == \/ row.path = prefix
                    \/ startswith(row.path, prefix \o <<".">>)
                    \/ startswith(row.path, prefix \o <<"[">>)
  IN  SelectSeq(rows, Under)

\* m = elem_re.match(path) and idx = int(m.group(1)): the index N of a path
\* that starts with filter_path[N], -1 for a path that does not match, and
\* the ValueError of int() for an N of more than MaxStrDigits digits (\d
\* matches the decimal digits int() reads)
ElemIdx(path, filter_path) ==
  LET from == Len(filter_path) + 2
      e == DigitsEnd(path, from)
  IN  IF startswith(path, filter_path \o <<"[">>) /\ e > from /\ e <= Len(path) /\ path[e] = "]"
        THEN (IF e - from <= MaxStrDigits
                THEN [err |-> NoErr, idx |-> int(SubSeq(path, from, e - 1))]
                ELSE [err |-> "ValueError", idx |-> 0 - 1])
        ELSE [err |-> NoErr, idx |-> 0 - 1]

\* the exception that ends the loop over the rows: int() fails on a row
ElemErr(rows, filter_path) ==
  IF \E i \in 1..Len(rows) : ElemIdx(rows[i].path, filter_path).err # NoErr
    THEN "ValueError" ELSE NoErr

\* order: the element indices in the order of their first row
ElemOrder(rows, filter_path) ==
  LET RECURSIVE Order(_)
      Order(i) ==
        IF i > Len(rows) THEN <<>>
        ELSE (IF /\ ElemIdx(rows[i].path, filter_path).idx >= 0
                 /\ \A j \in 1..(i - 1) : ElemIdx(rows[j].path, filter_path).idx
                                            # ElemIdx(rows[i].path, filter_path).idx
                THEN <<ElemIdx(rows[i].path, filter_path).idx>> ELSE <<>>) \o Order(i + 1)
  IN  [err |-> ElemErr(rows, filter_path),
       order |-> IF ElemErr(rows, filter_path) = NoErr THEN Order(1) ELSE <<>>]

\* the header rows followed by the groups of the kept elements
ElemRows(rows, filter_path, kept) ==
  LET Group(idx) == LET Of(row) == ElemIdx(row.path, filter_path).idx = idx
                    IN  SelectSeq(rows, Of)
      RECURSIVE Groups(_)
      Groups(i) == IF i > Len(kept) THEN <<>> ELSE Group(kept[i]) \o Groups(i + 1)
      \* header_rows
      NoElem(row) == ElemIdx(row.path, filter_path).idx < 0
  IN  [err |-> ElemErr(rows, filter_path),
       rows |-> IF ElemErr(rows, filter_path) = NoErr
                  THEN SelectSeq(rows, NoElem) \o Groups(1) ELSE <<>>]

\* sq[n:] and sq[:n] of Python, n of either sign
SliceFrom(sq, n) ==
  LET k == IF n < 0 THEN (IF Len(sq) + n < 0 THEN 0 ELSE Len(sq) + n)
           ELSE (IF n > Len(sq) THEN Len(sq) ELSE n)
  IN  SubSeq(sq, k + 1, Len(sq))

SliceTo(sq, n) ==
  LET k == IF n < 0 THEN (IF Len(sq) + n < 0 THEN 0 ELSE Len(sq) + n)
           ELSE (IF n > Len(sq) THEN Len(sq) ELSE n)
  IN  SubSeq(sq, 1, k)

\* the rows and the number of elements returned, or the exception raised
elem_offset_rows(rows, filter_path, elem_skip) ==
  [err |-> ElemErr(rows, filter_path),
   rows |-> ElemRows(rows, filter_path,
                     SliceFrom(ElemOrder(rows, filter_path).order, elem_skip)).rows,
   total |-> Len(ElemOrder(rows, filter_path).order)]

elem_limit_rows(rows, filter_path, elem_count) ==
  [err |-> ElemErr(rows, filter_path),
   rows |-> ElemRows(rows, filter_path,
                     SliceTo(ElemOrder(rows, filter_path).order, elem_count)).rows,
   total |-> Len(ElemOrder(rows, filter_path).order)]

\* an option that was not given
NoOpt == [has |-> FALSE, n |-> 0, path |-> <<>>]

OptN(n) == [has |-> TRUE, n |-> n, path |-> <<>>]

OptPath(path) == [has |-> TRUE, n |-> 0, path |-> path]

\* cmd_view: flat is flatten(data), inferred the rows after null inference,
\* rows the rows printed, and the footer tells the rows and elements shown
\* str(data) of a leaf, with the booleans as JSON writes them
fmt_val(d) ==
  IF d.t = "boolean" THEN (IF d.n = 1 THEN Chars("true") ELSE Chars("false"))
  ELSE IF d.t = "integer" THEN str(d.n)
  ELSE Chars(d.s)

\* the text print_row prints for a row
print_row(path, type_name, value) ==
  LET p == C_PATH \o path \o C_RESET
      t == C_TYPE \o Chars(type_name) \o C_RESET
  IN  IF value = Null THEN p \o <<" ">> \o t
      ELSE IF value = JStr("(empty)")
        THEN p \o <<" ">> \o t \o <<" ">> \o C_EMPTY \o Chars("(empty)") \o C_RESET
      ELSE IF value = JStr("(null)")
        THEN (IF type_name = "unknown"
                THEN p \o <<" ">> \o C_UNINF \o Chars(type_name) \o C_RESET \o <<" ">>
                       \o C_UNINF \o Chars("(null)") \o C_RESET
                ELSE p \o <<" ">> \o t \o <<" ">> \o C_NULL \o Chars("(null)") \o C_RESET)
      ELSE p \o <<" ">> \o t \o <<" ">> \o C_VAL \o fmt_val(value) \o C_RESET

\* the outcome of a view: the rows after each stage, the numbers of the
\* footer, the texts printed and the exception that ended the printing
cmd_view(d, schema, filter_path, limit, offset, elem_offset, elem_limit, errors) ==
  LET by_elem == (elem_offset > 0 \/ elem_limit.has) /\ filter_path.has
      offset2 == IF ~by_elem /\ elem_offset > 0 THEN elem_offset ELSE offset
      NoElems(rows) == [err |-> NoErr, rows |-> rows, total |-> 0 - 1]
      pagination == offset2 > 0 \/ limit.has \/ elem_offset > 0 \/ elem_limit.has
      shown_elems(total_elems) ==
        IF elem_limit.has THEN elem_limit.n ELSE total_elems - elem_offset
      elem_footer(total_elems) ==
        IF by_elem
          THEN Chars("  (elements ") \o str(elem_offset) \o Chars("U+002013")
                 \o str(elem_offset + shown_elems(total_elems) - 1)
                 \o Chars(" of ") \o str(total_elems) \o Chars(")")
          ELSE <<>>
      \* what is printed when no exception came before the printing
      Texts(r3, r5, total_elems) ==
        [i \in 1..Len(r5) |-> print_row(r5[i].path, r5[i].type, r5[i].value)]
          \o (IF pagination
                THEN <<C_DIM \o Chars("U+002500U+002500 showing rows ") \o str(offset2 + 1)
                         \o Chars("U+002013") \o str(offset2 + Len(r5))
                         \o Chars(" of ") \o str(Len(r3)) \o elem_footer(total_elems)
                         \o Chars(" U+002500U+002500") \o C_RESET>>
                ELSE <<>>)
      Footer(flat, inferred, r3, r5, total_elems, raised) ==
        [op |-> "cmd_view", flat |-> flat, inferred |-> inferred, rows |-> r5,
         pagination |-> pagination,
         shown_start |-> offset2 + 1, shown_end |-> offset2 + Len(r5), total |-> Len(r3),
         by_elem |-> by_elem,
         elem_first |-> IF by_elem THEN elem_offset ELSE 0,
         elem_last |-> IF by_elem THEN elem_offset + shown_elems(total_elems) - 1 ELSE 0,
         total_elems |-> IF by_elem THEN total_elems ELSE 0,
         err |-> IF raised # NoErr THEN raised
                 ELSE stdout_write(Texts(r3, r5, total_elems), errors).err,
         printed |-> IF raised # NoErr THEN <<>>
                     ELSE stdout_write(Texts(r3, r5, total_elems), errors).printed]
      RowLimit(flat, inferred, r3, r4, total_elems, raised) ==
        Footer(flat, inferred, r3, IF limit.has THEN SliceTo(r4, limit.n) ELSE r4,
               total_elems, raised)
      RowOffset(flat, inferred, r3, total_elems, raised) ==
        RowLimit(flat, inferred, r3, SliceFrom(r3, offset2), total_elems, raised)
      \* an exception of elem_offset_rows or elem_limit_rows ends the command
      ElemLimit(flat, inferred, off, lim) ==
        RowOffset(flat, inferred, lim.rows, IF off.total >= 0 THEN off.total ELSE lim.total,
                  IF off.err # NoErr THEN off.err ELSE lim.err)
      ElemOffset(flat, inferred, off) ==
        ElemLimit(flat, inferred, off,
                  IF by_elem /\ elem_limit.has
                    THEN elem_limit_rows(off.rows, filter_path.path, elem_limit.n)
                    ELSE NoElems(off.rows))
      Filter(flat, inferred, r2) ==
        ElemOffset(flat, inferred,
                   IF by_elem /\ elem_offset > 0
                     THEN elem_offset_rows(r2, filter_path.path, elem_offset)
                     ELSE NoElems(r2))
      Schema(flat, inferred, r1) ==
        Filter(flat, inferred,
               IF filter_path.has THEN filter_rows(r1, filter_path.path) ELSE r1)
      Inferred(flat, inferred) ==
        Schema(flat, inferred, IF schema THEN schema_rows(inferred) ELSE inferred)
      Flat(flat) == Inferred(flat, infer_nulls(flat))
  IN  Flat(flatten(d, <<"r", "o", "o", "t">>, TRUE))

\* the options of a view: none, -s, -F, -O with -n, -E and -L with and
\* without -F
ViewOpts ==
  { <<FALSE, NoOpt, NoOpt, 0, 0, NoOpt>>,
    <<TRUE, NoOpt, NoOpt, 0, 0, NoOpt>>,
    <<FALSE, OptPath(<<"a">>), NoOpt, 0, 0, NoOpt>>,
    <<FALSE, OptPath(<<"r", "o", "o", "t">>), NoOpt, 0, 1, NoOpt>>,
    <<FALSE, OptPath(<<"a">>), NoOpt, 0, 1, OptN(1)>>,
    <<TRUE, OptPath(<<"r", "o", "o", "t">>), NoOpt, 0, 0, OptN(0 - 1)>>,
    <<FALSE, NoOpt, OptN(2), 1, 0, NoOpt>>,
    <<FALSE, NoOpt, OptN(0 - 1), 0, 2, NoOpt>> }

\* one view of the loaded document
View ==
  /\ ans.op = "init"
  /\ \E o \in ViewOpts, errors \in StdoutErrors :
       /\ arg' = [data |-> data, schema |-> o[1], filter_path |-> o[2], limit |-> o[3],
                  offset |-> o[4], elem_offset |-> o[5], elem_limit |-> o[6],
                  errors |-> errors]
       /\ ans' = cmd_view(data, o[1], o[2], o[3], o[4], o[5], o[6], errors)
  /\ UNCHANGED <<data, last, steps, file, run, dirs>>

InitFlat ==
  /\ data \in FlatDocs
  /\ last = NoCall
  /\ steps = 0
  /\ file = Null
  /\ run = NoRun
  /\ arg = Null
  /\ ans = NoRes
  /\ dirs = NoDirs

NextFlat == View

SpecFlat == InitFlat /\ [][NextFlat]_vars

-----------------------------------------------------------------------------
(* JSON Schema inference.  A schema is the JSON object the code builds.    *)

_SCHEMA_SAMPLE == 20

\* {"type": t}
TypeOnly(t) == JObj(<<"type">>, <<JStr(t)>>)

HasKey(d, key) == KeyPos(d, key) > 0

\* s.get("type"): the declared type, "" for None
TypeOf(s) == IF HasKey(s, "type") THEN DictGet(s, "type").s ELSE ""

\* s.get("properties", {})
PropsOf(s) == IF HasKey(s, "properties") THEN DictGet(s, "properties") ELSE JObj(<<>>, <<>>)

\* set(s.get("required", []))
RequiredOf(s) ==
  IF HasKey(s, "required")
    THEN {DictGet(s, "required").v[i].s : i \in 1..Len(DictGet(s, "required").v)}
    ELSE {}

\* s.get("items", {})
ItemsOf(s) == IF HasKey(s, "items") THEN DictGet(s, "items") ELSE JObj(<<>>, <<>>)

\* the code points of the characters that are written as themselves
OneCharCodes == {code \in {9, 10, 12, 13} \cup (32..126) \cup (160..255) : ~Coded(CharOf(code))}

\* the code point of each of them
OneCharCode ==
  [c \in {CharOf(code) : code \in OneCharCodes} |->
     CHOOSE code \in OneCharCodes : CharOf(code) = c]

\* ord(c) of a character in the writing of characters
ord(c) ==
  IF Coded(c) THEN CodePoint(c) ELSE OneCharCode[c]

\* x < y for two strings, as Python compares str: by the code points of
\* the characters, a proper prefix first
StrLess(x, y) ==
  LET RECURSIVE Less(_, _, _)
      Less(a, b, i) ==
        IF i > Len(b) THEN FALSE
        ELSE IF i > Len(a) THEN TRUE
        ELSE IF a[i] # b[i] THEN ord(a[i]) < ord(b[i])
        ELSE Less(a, b, i + 1)
  IN  Less(Chars(x), Chars(y), 1)

RECURSIVE sorted(_)
\* the strings of a set in ascending order
sorted(S) ==
  IF S = {} THEN <<>>
  ELSE LET m == CHOOSE x \in S : \A y \in S : ~StrLess(y, x)
       IN  <<m>> \o sorted(S \ {m})

StrList(xs) == JArr([i \in 1..Len(xs) |-> JStr(xs[i])])

\* the (schema, key) positions the two loops add to all_props: a key is added
\* the first time it is met
FirstSeen(schemas) ==
  {p \in UNION {{<<i, j>> : j \in 1..Len(PropsOf(schemas[i]).k)} : i \in 1..Len(schemas)} :
     \A m \in 1..(p[1] - 1) : ~HasKey(PropsOf(schemas[m]), PropsOf(schemas[p[1]]).k[p[2]])}

\* all_props after the loops: every key with the schema it has where it is
\* first met, in the order the keys are met
AllProps(schemas) ==
  LET firsts == FirstSeen(schemas)
      earlier(p) == {q \in firsts : q[1] < p[1] \/ (q[1] = p[1] /\ q[2] < p[2])}
      nth(n) == CHOOSE p \in firsts : Cardinality(earlier(p)) = n - 1
  IN  JObj([n \in 1..Cardinality(firsts) |-> PropsOf(schemas[nth(n)[1]]).k[nth(n)[2]]],
           [n \in 1..Cardinality(firsts) |-> PropsOf(schemas[nth(n)[1]]).v[nth(n)[2]]])

RECURSIVE _merge_schemas(_)
_merge_schemas(schemas) ==
  IF schemas = <<>> THEN JObj(<<>>, <<>>)
  ELSE IF Len(schemas) = 1 THEN schemas[1]
  ELSE LET types == {TypeOf(schemas[i]) : i \in 1..Len(schemas)} \ {""} IN
       IF types = {} THEN JObj(<<>>, <<>>)
       ELSE IF Cardinality(types) = 1
         THEN LET t == CHOOSE x \in types : TRUE IN
              IF t = "object"
                THEN LET all_props == AllProps(schemas)
                         common == {x \in RequiredOf(schemas[1]) :
                                      \A i \in 1..Len(schemas) : x \in RequiredOf(schemas[i])}
                     IN  IF common # {}
                           THEN JObj(<<"type", "properties", "required">>,
                                     <<JStr("object"), all_props, StrList(sorted(common))>>)
                           ELSE JObj(<<"type", "properties">>, <<JStr("object"), all_props>>)
              ELSE IF t = "array"
                THEN JObj(<<"type", "items">>,
                          <<JStr("array"),
                            _merge_schemas([i \in 1..Len(schemas) |-> ItemsOf(schemas[i])])>>)
              ELSE TypeOnly(t)
       ELSE LET non_null == types \ {"null"} IN
            IF Cardinality(non_null) = 1 /\ "null" \in types
              THEN JObj(<<"type", "nullable">>,
                        <<JStr(CHOOSE x \in non_null : TRUE), JBool(TRUE)>>)
              ELSE JObj(<<"oneOf">>,
                        <<JArr([i \in 1..Cardinality(types) |-> TypeOnly(sorted(types)[i])])>>)


\* data[:_SCHEMA_SAMPLE]
Samples(d) == SubSeq(d.v, 1, IF Len(d.v) < _SCHEMA_SAMPLE THEN Len(d.v) ELSE _SCHEMA_SAMPLE)

\* v is not None and v != "" and v != [] and v != {}
Filled(x) == x # Null /\ x # JStr("") /\ x # JArr(<<>>) /\ x # JObj(<<>>, <<>>)

RECURSIVE _infer(_)
_infer(d) ==
  IF IsList(d)
    THEN IF d.v = <<>> THEN JObj(<<"type", "items">>, <<JStr("array"), JObj(<<>>, <<>>)>>)
         ELSE JObj(<<"type", "items">>,
                   <<JStr("array"),
                     _merge_schemas([i \in 1..Len(Samples(d)) |-> _infer(Samples(d)[i])])>>)
  ELSE IF IsDict(d)
    THEN IF d.v = <<>> THEN JObj(<<"type", "properties">>, <<JStr("object"), JObj(<<>>, <<>>)>>)
         ELSE LET properties == JObj(d.k, [i \in 1..Len(d.v) |-> _infer(d.v[i])])
                  required == sorted({d.k[i] : i \in {j \in 1..Len(d.v) : Filled(d.v[j])}})
              IN  IF required # <<>>
                    THEN JObj(<<"type", "properties", "required">>,
                              <<JStr("object"), properties, StrList(required)>>)
                    ELSE JObj(<<"type", "properties">>, <<JStr("object"), properties>>)
  ELSE TypeOnly(get_type_name(d))

SchemaVals ==
  { JInt(1), Null, JStr("s"), JBool(TRUE),
    JArr(<<>>), JArr(<<JInt(1)>>), JArr(<<JInt(1), JStr("s")>>), JArr(<<Null>>), JArr(<<JBool(TRUE)>>),
    JObj(<<>>, <<>>),
    JObj(<<"a", "b">>, <<JInt(1), JStr("")>>),
    JObj(<<"b", "c">>, <<JInt(2), Null>>),
    JObj(<<"b", "a">>, <<JStr("s"), JInt(1)>>) }

\* arrays one element longer than the sample: _SCHEMA_SAMPLE times x, then y
LongArrays ==
  {JArr([i \in 1..(_SCHEMA_SAMPLE + 1) |-> IF i <= _SCHEMA_SAMPLE THEN x ELSE y]) :
     x \in SchemaVals, y \in SchemaVals}

SchemaDocs ==
  SchemaVals
    \cup {JArr(vs) : vs \in UNION {[1..m -> SchemaVals] : m \in 1..MaxLen}}
    \cup LongArrays
    \cup {JObj(<<LoneSurrogate.s>>, <<JInt(1)>>)}

\* _infer, called where depth calls are in use, raises RecursionError on d:
\* the value at level n is inferred in call depth + 1 + 2n, after the call
\* of _infer on the container that holds it and the call of the
\* comprehension over the members of that container, which for an array
\* are its samples
InferRaises(d, depth) ==
  LevelsDown({d}, (RecursionLimit - depth - 1) \div 2 + 1, _SCHEMA_SAMPLE) # {}

\* cmd_schema: the schema inferred, the object printed (the schema after
\* "$schema" and the title) and the exception that ended the command;
\* errors is the error handler of standard output
cmd_schema(d, title, errors) ==
  IF InferRaises(d, InCommand)
    THEN [op |-> "cmd_schema", schema |-> Null, err |-> "RecursionError", doc |-> Null,
          errors |-> errors]
  ELSE
  Only({ Only({ IF IndentRaises(schema)
                  THEN [op |-> "cmd_schema", schema |-> inferred, err |-> "RecursionError",
                        doc |-> Null, errors |-> errors]
                ELSE Only({ [op |-> "cmd_schema", schema |-> inferred, err |-> w.err,
                             doc |-> IF w.err = NoErr THEN schema ELSE Null,
                             errors |-> errors] :
                            w \in {stdout_write(<<dumps_indent(schema)>>, errors)} }) :
                \* schema = {"$schema": ..., "title": title}; schema.update(_infer(data))
                schema \in {UpdateKeys(JObj(<<"$schema", "title">>,
                                            <<JStr("http://json-schema.org/draft-07/schema#"),
                                              JStr(title)>>),
                                       inferred, 1)} }) :
         inferred \in {_infer(d)} })

\* the schema command on the loaded document, without --title
Infer ==
  /\ ans.op = "init"
  /\ arg' = data
  /\ \E errors \in StdoutErrors : ans' = cmd_schema(data, "Inferred Schema", errors)
  /\ UNCHANGED <<data, last, steps, file, run, dirs>>

InitSchema ==
  /\ data \in SchemaDocs
  /\ last = NoCall
  /\ steps = 0
  /\ file = Null
  /\ run = NoRun
  /\ arg = Null
  /\ ans = NoRes
  /\ dirs = NoDirs

NextSchema == Infer

SpecSchema == InitSchema /\ [][NextSchema]_vars

-----------------------------------------------------------------------------
(* local-issue/next-issue-id.py.  dirs is the issues directory: whether it *)
(* exists, whether open/ and closed/ are directories, and the names of the *)
(* entries of each.  A name is a sequence of characters.                   *)

\* re.match(r"^(\d+)", name): the leading run of digits, << >> without a match
DigitPrefix(name) == SubSeq(name, 1, DigitsEnd(name, 1) - 1)

\* d.iterdir() of a subdirectory that d.is_dir() let through
Listed_OpenOnly(d, subdir) ==
  IF subdir = "open" /\ d.has_open THEN d.open ELSE {}

Listed(d, subdir) ==
  IF subdir = "open" THEN (IF d.has_open THEN d.open ELSE {})
  ELSE (IF d.has_closed THEN d.closed ELSE {})

\* max_id after the loop over one subdirectory that started with max_id = m
scan(d, subdir, m) ==
  LET ids == {int(DigitPrefix(name)) : name \in {x \in Listed(d, subdir) : DigitPrefix(x) # <<>>}}
               \cup {m}
  IN  CHOOSE n \in ids : \A x \in ids : x <= n

\* f"{n:03d}"
Format03d(n) ==
  IF n < 10 THEN <<"0", "0">> \o str(n)
  ELSE IF n < 100 THEN <<"0">> \o str(n)
  ELSE str(n)

next_id_NoIncrement(max_id) == Format03d(max_id)

\* the ID returned for the max_id the two loops end with
next_id(max_id) == Format03d(max_id + 1)

\* "001-foo", "003-bar", "002-baz", "notes", "0999", "12", and a name that
\* starts with the Arabic-Indic digits one and three
NamePool ==
  { <<"0", "0", "1", "-", "f", "o", "o">>,
    <<"0", "0", "3", "-", "b", "a", "r">>,
    <<"0", "0", "2", "-", "b", "a", "z">>,
    <<"n", "o", "t", "e", "s">>,
    <<"0", "9", "9", "9">>,
    <<"1", "2">>,
    <<"U+000661", "U+000663", "-", "x">> }

Dir(has_open, has_closed, open, closed) ==
  [exists |-> TRUE, has_open |-> has_open, has_closed |-> has_closed,
   open |-> IF has_open THEN open ELSE {}, closed |-> IF has_closed THEN closed ELSE {}]

InitDirs ==
  {NoDirs} \cup {Dir(ho, hc, o, c) : ho \in BOOLEAN, hc \in BOOLEAN,
                                     o \in SUBSET NamePool, c \in SUBSET NamePool}

\* the script started on the issues directory: an error exit when the
\* directory is missing, else the loop over open/; max_id is held until the
\* loop over closed/.  One run of the script at a time, and nothing else
\* touches the directory while it runs.
ScanOpen ==
  /\ ans.op # "scan"
  /\ arg' = dirs
  /\ ans' = IF ~dirs.exists
              THEN [op |-> "next_issue_id", err |-> "not found", id |-> <<>>, max_id |-> 0]
              ELSE [op |-> "scan", err |-> NoErr, id |-> <<>>,
                    max_id |-> scan(dirs, "open", 0)]
  /\ UNCHANGED <<data, last, steps, file, run, dirs>>

\* the loop over closed/, on the directory as it is by then, and the ID
\* printed
ScanClosed ==
  /\ ans.op = "scan"
  /\ arg' = dirs
  /\ ans' = [op |-> "next_issue_id", err |-> NoErr,
             id |-> next_id(scan(dirs, "closed", ans.max_id)), max_id |-> 0]
  /\ UNCHANGED <<data, last, steps, file, run, dirs>>

InitIssues ==
  /\ dirs \in InitDirs
  /\ data = Null
  /\ last = NoCall
  /\ steps = 0
  /\ file = Null
  /\ run = NoRun
  /\ arg = Null
  /\ ans = NoRes

NextIssues ==
  \/ ScanOpen
  \/ ScanClosed

SpecIssues == InitIssues /\ [][NextIssues]_vars

\* ---- the issue workflow around the script ----
\* A file is added to open/ under the ID the script has just printed, one
\* file per printed ID, and files are moved between open/ and closed/ under
\* their own names, each between two runs of the script and never during
\* one.  steps counts the files added.

MaxFiles == 2

\* 001-foo and 01-dup carry the same number
TrackPool ==
  { <<"0", "0", "1", "-", "f", "o", "o">>,
    <<"0", "1", "-", "d", "u", "p">> }

\* what follows the ID in the name of a new file
Suffixes == { <<"-", "x">>, <<"0">> }

TrackDirs ==
  {NoDirs} \cup {Dir(ho, hc, o, c) : ho \in BOOLEAN, hc \in BOOLEAN,
                                     o \in SUBSET TrackPool, c \in SUBSET TrackPool}

\* a new file in open/ named by the ID just printed; open/ is made when it
\* is missing
CreateFile ==
  /\ ans.op = "next_issue_id"
  /\ ans.err = NoErr
  /\ steps < MaxFiles
  /\ \E sfx \in Suffixes :
       /\ (ans.id \o sfx) \notin dirs.open
       /\ dirs' = [dirs EXCEPT !.has_open = TRUE, !.open = @ \cup {ans.id \o sfx}]
       /\ arg' = [name |-> ans.id \o sfx]
  /\ ans' = [op |-> "create", err |-> NoErr, id |-> ans.id, max_id |-> 0]
  /\ steps' = steps + 1
  /\ UNCHANGED <<data, last, file, run>>

\* an existing file moved from open/ to closed/ or back, replacing a file of
\* the same name there; the target subdirectory is made when it is missing
MoveFile ==
  /\ dirs.exists
  /\ ans.op # "scan"
  /\ \E name \in dirs.open \cup dirs.closed, to_closed \in BOOLEAN :
       /\ name \in (IF to_closed THEN dirs.open ELSE dirs.closed)
       /\ dirs' = IF to_closed
                    THEN [dirs EXCEPT !.open = @ \ {name}, !.closed = @ \cup {name},
                                      !.has_closed = TRUE]
                    ELSE [dirs EXCEPT !.closed = @ \ {name}, !.open = @ \cup {name},
                                      !.has_open = TRUE]
       /\ arg' = [name |-> name]
  /\ UNCHANGED <<data, last, steps, file, run, ans>>

InitTracker ==
  /\ dirs \in TrackDirs
  /\ data = Null
  /\ last = NoCall
  /\ steps = 0
  /\ file = Null
  /\ run = NoRun
  /\ arg = Null
  /\ ans = NoRes

NextTracker ==
  \/ ScanOpen
  \/ ScanClosed
  \/ CreateFile
  \/ MoveFile

SpecTracker == InitTracker /\ [][NextTracker]_vars

-----------------------------------------------------------------------------
(* Properties *)

\* the segments of the path argument of the latest invocation
RunSegs == parse_path(run.path).segs

\* the latest invocation took a value argument
RunTakesValue == run.cmd \in {"set", "before", "after"}

\* the value argument of the latest invocation parsed
RunValOk == RunTakesValue => parse_value(run.val_str).err = NoErr

\* the value the latest invocation works with: the parsed value argument,
\* the patch of a merge, null otherwise
RunVal ==
  IF RunTakesValue THEN parse_value(run.val_str).value
  ELSE IF run.cmd = "merge" THEN run.patch ELSE Null

RunPathOk == parse_path(run.path).err = NoErr /\ navigate(run.pre, RunSegs).err = NoErr

\* 1-based position in container d of the entry segment seg addresses
PosOf(d, seg) == IF seg.str THEN KeyPos(d, seg.key) ELSE NormIdx(Len(d.v), seg.idx) + 1

RECURSIVE SameExcept(_, _, _)
\* d1 and d2 differ at most at or below path p (which navigates in d1): every
\* container on the way has the same kind, keys, key order and length, and every
\* entry off the way has the same value
SameExcept(d1, d2, p) ==
  IF p = <<>> THEN TRUE
  ELSE /\ d1.t = d2.t
       /\ d1.k = d2.k
       /\ Len(d1.v) = Len(d2.v)
       /\ \A i \in 1..Len(d1.v) :
            IF i = PosOf(d1, Head(p))
              THEN SameExcept(d1.v[i], d2.v[i], Tail(p))
              ELSE d1.v[i] = d2.v[i]

\* the latest call addressed a non-root path that navigates in the document it got
NavOk == last.segs # <<>> /\ navigate(last.pre, last.segs).err = NoErr

\* the container holding the addressed node, before and after the latest call
ParentBefore == navigate(last.pre, Front(last.segs)).node

ParentAfter == navigate(data, Front(last.segs)).node

\* 0-based position the index of the latest call addresses in the parent array
AddrIdx == NormIdx(Len(ParentBefore.v), LastSeg(last.segs).idx)

\* C1: a forced set or set-null on a valid path (root included), with a value
\* argument that parse_value accepts, writes or prints the document with the
\* edit applied; 'set root v' emits v, 'set-null root' null.
C1_ForcedSetEmitsEdited ==
  (run.cmd \in {"set", "set-null"} /\ run.force /\ RunPathOk /\ RunValOk)
    => /\ run.err = NoErr
       /\ run.out = (IF run.has_file THEN "file" ELSE "stdout")
       /\ IF RunSegs = <<>>
            THEN run.doc = RunVal
            ELSE /\ navigate(run.doc, RunSegs).err = NoErr
                 /\ navigate(run.doc, RunSegs).node = RunVal
                 /\ SameExcept(run.pre, run.doc, RunSegs)

\* C2: del with the root path always ends with an error and neither reports nor
\* performs a change, with and without -f.
C2_DelRootFails ==
  (run.cmd = "del" /\ parse_path(run.path).err = NoErr /\ RunSegs = <<>>)
    => /\ run.err # NoErr
       /\ run.out = "none"
       /\ file = run.pre

\* C3: apply_set / apply_set_null on a non-root path that navigates: the path
\* then yields the value, the document object itself is returned, and nothing
\* outside the path changed.
C3_SetInPlaceFrame ==
  (last.op \in {"set", "set_null"} /\ NavOk)
    => /\ last.err = NoErr
       /\ navigate(data, last.segs).err = NoErr
       /\ navigate(data, last.segs).node = (IF last.op = "set" THEN last.val ELSE Null)
       /\ last.same
       /\ last.ret = data
       /\ SameExcept(last.pre, data, last.segs)

C3_Witness ==
  /\ last.op = "set"
  /\ NavOk
  /\ Len(last.segs) = 2
  /\ ~LastSeg(last.segs).str
  /\ LastSeg(last.segs).idx < 0
  /\ navigate(data, last.segs).node = last.val
  /\ data # last.pre

\* C4: apply_del on a non-root path that navigates removes exactly the addressed
\* entry (object: the key goes, the other keys keep value and order; array:
\* length n-1, elements before i unchanged, later ones shifted down by one);
\* with the root path it fails.
C4_DelRemovesEntry ==
  /\ (last.op = "del" /\ last.segs = <<>>) => (last.err = "ValueError" /\ data = last.pre)
  /\ (last.op = "del" /\ NavOk)
       => /\ last.err = NoErr
          /\ SameExcept(last.pre, data, Front(last.segs))
          /\ ParentAfter.t = ParentBefore.t
          /\ IF IsDict(ParentBefore)
               THEN LET gone == LastSeg(last.segs).key
                        rest == {ParentBefore.k[i] : i \in 1..Len(ParentBefore.k)} \ {gone}
                    IN  /\ KeyPos(ParentAfter, gone) = 0
                        /\ Len(ParentAfter.k) = Len(ParentBefore.k) - 1
                        /\ \A x \in rest :
                             /\ KeyPos(ParentAfter, x) > 0
                             /\ DictGet(ParentAfter, x) = DictGet(ParentBefore, x)
                        /\ \A x \in rest, y \in rest :
                             KeyPos(ParentBefore, x) < KeyPos(ParentBefore, y)
                               => KeyPos(ParentAfter, x) < KeyPos(ParentAfter, y)
               ELSE LET n == Len(ParentBefore.v)
                        i == AddrIdx
                    IN  /\ Len(ParentAfter.v) = n - 1
                        /\ \A j \in 0..(i - 1) : ParentAfter.v[j + 1] = ParentBefore.v[j + 1]
                        /\ \A j \in (i + 1)..(n - 1) : ParentAfter.v[j] = ParentBefore.v[j + 1]

C4_Witness ==
  /\ last.op = "del"
  /\ NavOk
  /\ last.err = NoErr
  /\ IsList(ParentBefore)
  /\ Len(ParentBefore.v) = 2
  /\ AddrIdx = 0
  /\ ParentAfter.v = <<ParentBefore.v[2]>>

\* C5: on an array of length n and an index i with -n <= i < n, apply_before
\* puts the value immediately before the addressed element and apply_after
\* immediately after it; the length becomes n+1 and the original elements keep
\* their order.
C5_InsertAtAddressed ==
  (last.op \in {"before", "after"} /\ NavOk /\ IsList(ParentBefore))
    => LET n   == Len(ParentBefore.v)
           pos == IF last.op = "before" THEN AddrIdx + 1 ELSE AddrIdx + 2
       IN  /\ last.err = NoErr
           /\ Len(ParentAfter.v) = n + 1
           /\ ParentAfter.v[pos] = last.val
           /\ \A j \in 1..(pos - 1) : ParentAfter.v[j] = ParentBefore.v[j]
           /\ \A j \in pos..n : ParentAfter.v[j + 1] = ParentBefore.v[j]

\* the latest call is apply_before at the non-negative index at which the call
\* before it deleted an element of the same array
BeforeAfterDel ==
  /\ last.op = "before"
  /\ last.prior.op = "del"
  /\ last.prior.err = NoErr
  /\ last.prior.segs = last.segs
  /\ IsList(navigate(last.prior.pre, Front(last.segs)).node)
  /\ LastSeg(last.segs).idx >= 0

\* length of the array before the deletion
LenBeforeDel == Len(navigate(last.prior.pre, Front(last.segs)).node.v)

\* C6 as stated: apply_del at a valid index i >= 0 followed by apply_before at
\* the same index succeeds and restores the array length.
C6_DelBeforeRestores ==
  BeforeAfterDel => (last.err = NoErr /\ Len(ParentAfter.v) = LenBeforeDel)

\* C6 amended: it does so when i < n-1; when the deleted element was the last
\* one (i = n-1), apply_before fails with IndexError and the length stays n-1.
C6_DelBeforeRestoresUnlessLast ==
  BeforeAfterDel
    => IF LastSeg(last.segs).idx < LenBeforeDel - 1
         THEN last.err = NoErr /\ Len(ParentAfter.v) = LenBeforeDel
         ELSE last.err = "IndexError" /\ data = last.pre /\ Len(ParentAfter.v) = LenBeforeDel - 1

C6_Witness ==
  /\ BeforeAfterDel
  /\ LenBeforeDel = 2
  /\ LastSeg(last.segs).idx = 0
  /\ last.err = NoErr
  /\ Len(data.v) = 2

\* C7: insert-before/after (apply_before, apply_after, preview_insert) with the
\* root path, or with a path that navigates to a member of an object, fails with
\* ValueError, which is none of the navigation errors, and leaves the document
\* unchanged.
C7_InsertNeedsArrayParent ==
  (/\ last.op \in {"before", "after", "preview_insert"}
   /\ \/ last.segs = <<>>
      \/ NavOk /\ IsDict(ParentBefore))
    => /\ last.err = "ValueError"
       /\ last.err \notin NavErrors
       /\ data = last.pre

C7_Witness ==
  /\ last.op = "after"
  /\ NavOk
  /\ IsDict(ParentBefore)
  /\ Len(last.segs) = 2
  /\ last.err = "ValueError"

\* the keys of object d as a set
KeySet(d) == {d.k[i] : i \in 1..Len(d.k)}

\* the keys of patch that base lacks, in patch order
RECURSIVE NewKeys(_, _, _)
NewKeys(base, patch, i) ==
  IF i > Len(patch.k) THEN <<>>
  ELSE IF patch.k[i] \in KeySet(base) THEN NewKeys(base, patch, i + 1)
  ELSE <<patch.k[i]>> \o NewKeys(base, patch, i + 1)

\* C8: deep_merge(base, patch) of two objects has the keys of base followed by
\* the keys only in patch; a key only in base keeps base's value, a key only in
\* patch takes patch's value, a key in both holds deep_merge of the two values;
\* in every other case the result is patch.  The example of the spec holds.
C8_DeepMergeRule ==
  last.op = "deep_merge"
    => LET base == last.pre
           patch == last.val
           r == last.ret
       IN  /\ IF IsDict(base) /\ IsDict(patch)
                THEN /\ IsDict(r)
                     /\ r.k = base.k \o NewKeys(base, patch, 1)
                     /\ Len(r.v) = Len(r.k)
                     /\ \A x \in KeySet(base) \ KeySet(patch) : DictGet(r, x) = DictGet(base, x)
                     /\ \A x \in KeySet(patch) \ KeySet(base) : DictGet(r, x) = DictGet(patch, x)
                     /\ \A x \in KeySet(patch) \cap KeySet(base) :
                          DictGet(r, x) = deep_merge(DictGet(base, x), DictGet(patch, x))
                ELSE r = patch
           /\ (base = ExBase /\ patch = ExPatch) => r = ExResult

C8_Witness ==
  /\ last.op = "deep_merge"
  /\ last.pre = ExBase
  /\ last.val = ExPatch
  /\ last.ret = ExResult

\* C9: apply_copy with src and dst (non-root) both navigating: the value at dst
\* is then the value src had, and nothing outside dst changed; if src or dst
\* does not navigate, apply_copy fails with that navigation error.  It holds
\* for the documents of InitDocs; on a document of DeepDocs whose source
\* lies CopyLevels deep the copy ends with RecursionError.
C9_CopyFrame ==
  (last.op = "copy" /\ last.segs # <<>>)
    => LET s == navigate(last.pre, last.src)
           d == navigate(last.pre, last.segs)
       IN  /\ (s.err = NoErr /\ d.err = NoErr)
                => /\ last.err = NoErr
                   /\ navigate(data, last.segs).err = NoErr
                   /\ navigate(data, last.segs).node = s.node
                   /\ SameExcept(last.pre, data, last.segs)
           /\ s.err # NoErr => (last.err = s.err /\ last.err \in NavErrors)
           /\ (s.err = NoErr /\ d.err # NoErr) => (last.err = d.err /\ last.err \in NavErrors)

\* what the claim says one segment does on a node
SegRule(node, seg) ==
  IF seg.str
    THEN IF node.t # "object" THEN "TypeError"
         ELSE IF \A i \in 1..Len(node.k) : node.k[i] # seg.key THEN "KeyError"
         ELSE NoErr
    ELSE IF node.t # "array" THEN "TypeError"
         ELSE IF seg.idx < -Len(node.v) \/ seg.idx >= Len(node.v) THEN "IndexError"
         ELSE NoErr

\* C10: navigate fails at the first offending segment with the error of that
\* segment's kind (wrong container kind, key not found, index out of range);
\* otherwise it returns (parent, key, node) with key the last segment and
\* parent[key] = node, and (None, None, document) for the empty list.
C10_NavigateRule ==
  last.op = "navigate"
    => LET r == last.nav
           p == last.segs
       IN  IF r.err = NoErr
             THEN /\ r.at = Len(p)
                  /\ IF p = <<>>
                       THEN r.parent = Null /\ r.key = <<>> /\ r.node = last.pre
                       ELSE /\ r.key = <<LastSeg(p)>>
                            /\ navigate(last.pre, Front(p)).err = NoErr
                            /\ r.parent = navigate(last.pre, Front(p)).node
                            /\ SegRule(r.parent, LastSeg(p)) = NoErr
                            /\ r.node = r.parent.v[PosOf(r.parent, LastSeg(p))]
             ELSE /\ r.at \in 1..Len(p)
                  /\ navigate(last.pre, SubSeq(p, 1, r.at - 1)).err = NoErr
                  /\ r.err = SegRule(navigate(last.pre, SubSeq(p, 1, r.at - 1)).node, p[r.at])

C10_Witness ==
  /\ last.op = "navigate"
  /\ Len(last.segs) = 2
  /\ last.nav.err = "IndexError"
  /\ last.nav.at = 2
  /\ LastSeg(last.segs).idx = Len(navigate(last.pre, Front(last.segs)).node.v)

\* the latest call parsed a path written by PathOf for a segment list
Built == ans.op = "parse_path" /\ arg.built

\* the segment list ends with a key whose last character is whitespace
EndsBlank(segs) ==
  /\ segs # <<>>
  /\ LastSeg(segs).str
  /\ isspace(Chars(LastSeg(segs).key)[Len(Chars(LastSeg(segs).key))])

C11_Examples ==
  ans.op = "parse_path" =>
    /\ arg.path = <<"u", "s", "e", "r", "s", "[", "0", "]", ".", "n", "a", "m", "e">>
         => ans.err = NoErr /\ ans.segs = <<K("users"), I(0), K("name")>>
    /\ arg.path = <<"r", "o", "o", "t">> => ans.err = NoErr /\ ans.segs = <<>>
    /\ arg.path = <<"r", "o", "o", "t", "[", "0", "]", ".", "k", "e", "y">>
         => ans.err = NoErr /\ ans.segs = <<I(0), K("key")>>

\* C11: parse_path gives the three example results, and the path written as
\* 'root' followed by '.key' / '[i]' for a list of non-empty keys without '.'
\* or '[' and of non-negative indices parses back to exactly that list.
C11_PathRoundTrip ==
  /\ C11_Examples
  /\ Built => ans.err = NoErr /\ ans.segs = arg.from

\* the characters cs without the whitespace at their end
WithoutBlankEnd(cs) ==
  SubSeq(cs, 1, CHOOSE n \in 0..Len(cs) :
                  /\ n = 0 \/ ~isspace(cs[n])
                  /\ \A j \in (n + 1)..Len(cs) : isspace(cs[j]))

\* the segment list without the whitespace that ends its last key, and
\* without that key when it is all whitespace
EndTrimmed(segs) ==
  IF WithoutBlankEnd(Chars(LastSeg(segs).key)) = <<>> THEN Front(segs)
  ELSE Append(Front(segs), K(Join(WithoutBlankEnd(Chars(LastSeg(segs).key)))))

\* every index of the list is written with at most MaxStrDigits digits
IndexesShort(segs) ==
  \A i \in 1..Len(segs) : ~segs[i].str => Len(str(segs[i].idx)) <= MaxStrDigits

\* C11, amended: the three examples hold; the round trip holds for every
\* such list, of indices of at most 4300 digits, that does not end with a
\* key whose last character is whitespace; for a list that ends with such
\* a key parse_path strips the string first and returns the list with that
\* key cut before its final whitespace, or without it when it is all
\* whitespace; an index of more than 4300 digits is refused with ValueError.
C11_PathRoundTripUnlessEndsBlank ==
  /\ C11_Examples
  /\ (Built /\ IndexesShort(arg.from) /\ ~EndsBlank(arg.from))
       => ans.err = NoErr /\ ans.segs = arg.from
  /\ (Built /\ IndexesShort(arg.from) /\ EndsBlank(arg.from))
       => ans.err = NoErr /\ ans.segs = EndTrimmed(arg.from)
  /\ (ans.op = "parse_path" /\ arg.path = LongIndexPath)
       => ans.err = "ValueError" /\ ans.segs = <<>>

C11_Witness ==
  /\ Built
  /\ Len(arg.from) = 2
  /\ arg.from[1] = K("a ")
  /\ arg.from[2] = I(12)
  /\ ans.segs = arg.from

\* digits: a non-empty run of decimal digits
Numeric(cs) == isdigit(cs) /\ IntOk(cs)

RECURSIVE GrammarTail(_, _)
\* cs from position i on is ('.' segment | '[' digits ']')*
GrammarTail(cs, i) ==
  IF i > Len(cs) THEN TRUE
  ELSE IF cs[i] = "." THEN KeyEnd(cs, i + 1) > i + 1 /\ GrammarTail(cs, KeyEnd(cs, i + 1))
  ELSE IF cs[i] = "["
    THEN LET j == IndexFrom(cs, "]", i) IN
         j # 0 /\ Numeric(SubSeq(cs, i + 1, j - 1)) /\ GrammarTail(cs, j + 1)
  ELSE FALSE

\* root | root.rest | root[digits]rest | segment ('.' segment | '[' digits ']')*
InGrammar(cs) ==
  \/ cs = <<"r", "o", "o", "t">>
  \/ startswith(cs, <<"r", "o", "o", "t", ".">>) /\ KeyEnd(cs, 6) > 6 /\ GrammarTail(cs, KeyEnd(cs, 6))
  \/ startswith(cs, <<"r", "o", "o", "t", "[">>) /\ GrammarTail(cs, 5)
  \/ KeyEnd(cs, 1) > 1 /\ GrammarTail(cs, KeyEnd(cs, 1))

\* some '[' is not closed or encloses something other than digits
BadIndex(cs) ==
  \E i \in 1..Len(cs) :
    /\ cs[i] = "["
    /\ LET j == IndexFrom(cs, "]", i) IN j = 0 \/ ~Numeric(SubSeq(cs, i + 1, j - 1))

\* some key segment is empty: a '.' that is first once 'root.' is removed, or
\* that no key follows
EmptyKey(cs) ==
  LET rest == IF startswith(cs, <<"r", "o", "o", "t", ".">>) THEN SubSeq(cs, 6, Len(cs)) ELSE cs IN
  \/ rest # <<>> /\ rest[1] = "."
  \/ \E i \in 1..Len(cs) : cs[i] = "." /\ (i = Len(cs) \/ cs[i + 1] \in {".", "["})

\* C12: parse_path accepts only the strings of the path grammar, and fails
\* with a parse error whenever a bracketed index is non-numeric or a key
\* segment is empty.
C12_AcceptsOnlyGrammar ==
  ans.op = "parse_path" =>
    /\ ans.err = NoErr => InGrammar(strip(arg.path))
    /\ (BadIndex(strip(arg.path)) \/ EmptyKey(strip(arg.path))) => ans.err = "ValueError"

Root == <<"r", "o", "o", "t">>

\* the latest call was flatten(data)
\* a view has run: ans.flat holds the rows of flatten(data)
Flattened == ans.op = "cmd_view"

\* C13: the rows of one flatten pass have pairwise distinct paths, and the
\* first row is the root row (path 'root').
C13_PathsDistinct ==
  Flattened =>
    /\ ans.flat[1].path = Root
    /\ \A i, j \in 1..Len(ans.flat) : i # j => ans.flat[i].path # ans.flat[j].path

\* a value that is no JSON value: the reconstruction could not be carried out
Failed == [t |-> "failed", n |-> 0, s |-> "", k |-> <<>>, v |-> <<>>]

\* the document d with x put at segs: the whole document for the empty list,
\* d[key] = x in a parent object, the next or an existing element of a
\* parent array
Place(d, segs, x) ==
  IF segs = <<>> THEN x
  ELSE LET nav == navigate(d, Front(segs))
           seg == LastSeg(segs)
       IN  IF d = Failed \/ nav.err # NoErr THEN Failed
           ELSE IF seg.str /\ IsDict(nav.node)
             THEN ReplaceAt(d, Front(segs), DictSet(nav.node, seg.key, x))
           ELSE IF ~seg.str /\ IsList(nav.node) /\ seg.idx = Len(nav.node.v)
             THEN ReplaceAt(d, Front(segs), JArr(Append(nav.node.v, x)))
           ELSE IF ~seg.str /\ IsList(nav.node) /\ seg.idx < Len(nav.node.v)
             THEN ReplaceAt(d, Front(segs), ListSet(nav.node, seg.idx, x))
           ELSE Failed

RECURSIVE Reconstruct(_, _, _)
\* the value built from rows[i..] onto d: a container row puts an empty
\* object or array at its path, a leaf row puts its value there
Reconstruct(rows, i, d) ==
  IF i > Len(rows) THEN d
  ELSE LET row == rows[i]
           pp == parse_path(row.path)
           x == IF row.type = "object" THEN JObj(<<>>, <<>>)
                ELSE IF row.type = "array" THEN JArr(<<>>)
                ELSE row.value
       IN  IF pp.err # NoErr THEN Failed
           ELSE Reconstruct(rows, i + 1, Place(d, pp.segs, x))

\* C14: putting the rows of flatten back, containers as empty skeletons and
\* leaves as their values, each at its path and in row order, rebuilds a
\* value equal to the original (key order, array order and the boolean /
\* integer distinction included).
C14_FlattenReconstruct == Flattened => Reconstruct(ans.flat, 1, Null) = data

RECURSIVE TrueSegs(_, _)
RECURSIVE TrueSegsItems(_, _, _)
TrueSegsItems(d, prefix, i) ==
  IF i > Len(d.v) THEN <<>>
  ELSE TrueSegs(d.v[i], Append(prefix, IF IsDict(d) THEN K(d.k[i]) ELSE I(i - 1)))
         \o TrueSegsItems(d, prefix, i + 1)

\* the segment lists of the nodes of d in the order flatten visits them
TrueSegs(d, prefix) ==
  IF IsDict(d) \/ IsList(d) THEN <<prefix>> \o TrueSegsItems(d, prefix, 1) ELSE <<prefix>>

RECURSIVE KeysPlain(_)
\* every object key of d is non-empty and contains neither '.' nor '['
KeysPlain(d) ==
  /\ \A i \in 1..Len(d.k) :
       Chars(d.k[i]) # <<>> /\ \A j \in 1..Len(Chars(d.k[i])) : Chars(d.k[i])[j] \notin {".", "["}
  /\ \A i \in 1..Len(d.v) : KeysPlain(d.v[i])

\* C20: for a document with plain keys, the path of every row of flatten
\* parses, navigates, and resolves to the node the row was emitted for.
C20_RowsAddressable ==
  (Flattened /\ KeysPlain(data)) =>
    \A i \in 1..Len(ans.flat) :
      LET pp == parse_path(ans.flat[i].path) IN
      /\ pp.err = NoErr
      /\ navigate(data, pp.segs).err = NoErr
      /\ pp.segs = TrueSegs(data, <<>>)[i]

\* a row of a leaf that is not null
TypedLeaf(row) == row.type \notin {"object", "array", "null"}

\* the type of the first typed leaf row with signature s, "unknown" without one
FirstType(rows, s) ==
  LET hits == {i \in 1..Len(rows) : TypedLeaf(rows[i]) /\ sig(rows[i].path) = s} IN
  IF hits = {} THEN "unknown"
  ELSE rows[CHOOSE i \in hits : \A j \in hits : i <= j].type

\* C15: infer_nulls rewrites every literal-null leaf row to the type of the
\* first non-container, non-null row with the same signature ('unknown'
\* without one) and the marker '(null)', returns every other row unchanged
\* and in place, and returns its own output unchanged.
C15_FirstOccurrence ==
  Flattened =>
    /\ Len(ans.inferred) = Len(ans.flat)
    /\ \A i \in 1..Len(ans.flat) :
         IF ans.flat[i].type = "null" /\ ans.flat[i].value = Null
           THEN ans.inferred[i] = Row(ans.flat[i].path,
                                      FirstType(ans.flat, sig(ans.flat[i].path)), JStr("(null)"))
           ELSE ans.inferred[i] = ans.flat[i]
    /\ infer_nulls(ans.inferred) = ans.inferred

\* the schema of a non-empty array has just been inferred
InferredArray == ans.op = "cmd_schema" /\ IsList(data) /\ data.v # <<>>

\* the schemas of the first _SCHEMA_SAMPLE elements of the array
Sampled == [i \in (1..Len(data.v)) \cap (1.._SCHEMA_SAMPLE) |-> _infer(data.v[i])]

\* the types a schema declares: its 'type', null when it is marked
\* nullable, and the types of its 'oneOf' entries
DeclaredTypes(s) ==
  (IF HasKey(s, "type") THEN {TypeOf(s)} ELSE {})
    \cup (IF HasKey(s, "nullable") /\ DictGet(s, "nullable") = JBool(TRUE) THEN {"null"} ELSE {})
    \cup (IF HasKey(s, "oneOf")
            THEN {TypeOf(DictGet(s, "oneOf").v[i]) : i \in 1..Len(DictGet(s, "oneOf").v)}
            ELSE {})

\* the 'required' list of a schema, empty when it has none
RequiredList(s) ==
  IF HasKey(s, "required")
    THEN [i \in 1..Len(DictGet(s, "required").v) |-> DictGet(s, "required").v[i].s]
    ELSE <<>>

\* the object case of the merge rule: union of the properties with the
\* first-seen schema of each key, 'required' the sorted intersection
ObjectRule(merged, schemas) ==
  /\ TypeOf(merged) = "object"
  /\ KeySet(PropsOf(merged)) = UNION {KeySet(PropsOf(schemas[i])) : i \in 1..Len(schemas)}
  /\ \A key \in KeySet(PropsOf(merged)) :
       LET first == CHOOSE i \in 1..Len(schemas) :
                      /\ HasKey(PropsOf(schemas[i]), key)
                      /\ \A j \in 1..(i - 1) : ~HasKey(PropsOf(schemas[j]), key)
       IN  DictGet(PropsOf(merged), key) = DictGet(PropsOf(schemas[first]), key)
  /\ {RequiredList(merged)[i] : i \in 1..Len(RequiredList(merged))}
       = {x \in RequiredOf(schemas[1]) : \A i \in 1..Len(schemas) : x \in RequiredOf(schemas[i])}
  /\ \A i \in 1..(Len(RequiredList(merged)) - 1) :
       StrLess(RequiredList(merged)[i], RequiredList(merged)[i + 1])

RECURSIVE MergeRule(_, _)
\* merged is what the rule of the claim gives for the schemas: one declared
\* type gives the structural merge (objects by ObjectRule, arrays by this
\* rule on their item schemas, primitives the type), one non-null type plus
\* null that type with nullable = true, anything else a oneOf with one
\* entry per declared type; schemas that declare no type give {}
MergeRule(merged, schemas) ==
  LET types == UNION {DeclaredTypes(schemas[i]) : i \in 1..Len(schemas)} IN
  IF types = {} THEN merged = JObj(<<>>, <<>>)
  ELSE IF Cardinality(types) = 1
    THEN LET t == CHOOSE x \in types : TRUE IN
         IF t = "object" THEN ObjectRule(merged, schemas)
         ELSE IF t = "array"
           THEN /\ KeySet(merged) = {"type", "items"}
                /\ TypeOf(merged) = "array"
                /\ MergeRule(ItemsOf(merged), [i \in 1..Len(schemas) |-> ItemsOf(schemas[i])])
         ELSE merged = TypeOnly(t)
  ELSE IF Cardinality(types \ {"null"}) = 1 /\ "null" \in types
    THEN /\ KeySet(merged) = {"type", "nullable"}
         /\ TypeOf(merged) \in types \ {"null"}
         /\ DictGet(merged, "nullable") = JBool(TRUE)
  ELSE /\ KeySet(merged) = {"oneOf"}
       /\ Len(DictGet(merged, "oneOf").v) = Cardinality(types)
       /\ {DictGet(merged, "oneOf").v[i] : i \in 1..Cardinality(types)}
            = {TypeOnly(t) : t \in types}

\* C16: the 'items' schema of a non-empty array is computed from its first
\* 20 elements: one declared type gives the structural merge (objects,
\* arrays by the same rule on their item schemas, primitives), one non-null
\* type plus null gives that type with nullable = true, anything else a
\* oneOf with one entry per declared type.
C16_ItemsRule ==
  InferredArray => MergeRule(DictGet(ans.schema, "items"), Sampled)

\* the script has printed an ID for the directory arg
IdPrinted == ans.op = "next_issue_id" /\ ans.err = NoErr

\* the numeric prefixes of the names in open/ and closed/
Prefixes ==
  {int(DigitPrefix(name)) :
     name \in {x \in (IF arg.has_open THEN arg.open ELSE {})
                       \cup (IF arg.has_closed THEN arg.closed ELSE {}) : DigitPrefix(x) # <<>>}}

\* C17: the ID is one plus the largest numeric prefix of the names in open/
\* and closed/, written with at least three digits (zero-padded); '001' when
\* there is no prefix; '004' for 001-foo, 003-bar in open/ and 002-baz in
\* closed/.
C17_NextIdIsMaxPlusOne ==
  IdPrinted =>
    /\ isdigit(ans.id)
    /\ Len(ans.id) >= 3
    /\ Len(ans.id) > 3 => ans.id[1] # "0"
    /\ \A p \in Prefixes : int(ans.id) > p
    /\ Prefixes # {} => int(ans.id) - 1 \in Prefixes
    /\ Prefixes = {} => ans.id = <<"0", "0", "1">>
    /\ ( /\ arg.open = {<<"0", "0", "1", "-", "f", "o", "o">>, <<"0", "0", "3", "-", "b", "a", "r">>}
         /\ arg.closed = {<<"0", "0", "2", "-", "b", "a", "z">>} )
         => ans.id = <<"0", "0", "4">>

C17_Witness ==
  /\ IdPrinted
  /\ arg.open = {<<"0", "0", "1", "-", "f", "o", "o">>, <<"0", "0", "3", "-", "b", "a", "r">>}
  /\ arg.closed = {<<"0", "0", "2", "-", "b", "a", "z">>}
  /\ ans.id = <<"0", "0", "4">>

\* the document of the latest invocation was read and its paths and value
\* parsed
RunParsed ==
  /\ run.cmd # "init"
  /\ read_json(run.pre).err = NoErr
  /\ RunValOk
  /\ parse_path(run.path).err = NoErr
  /\ run.cmd = "copy" => parse_path(run.src).err = NoErr

\* the call of apply_* that the forced branch of the latest command makes on
\* the document it read
RunApply ==
  LET segs == parse_path(run.path).segs IN
  CASE run.cmd = "set" -> apply_set(run.pre, segs, RunVal)
    [] run.cmd = "del" -> apply_del(run.pre, segs)
    [] run.cmd = "before" -> apply_before(run.pre, segs, RunVal)
    [] run.cmd = "after" -> apply_after(run.pre, segs, RunVal)
    [] run.cmd = "set-null" -> apply_set_null(run.pre, segs)
    [] run.cmd = "copy" -> apply_copy(run.pre, parse_path(run.src).segs, segs)
    [] run.cmd = "merge" -> apply_merge(run.pre, segs, RunVal)

\* C18: when the apply_* call of a command fails, the document is as it was
\* before the call, and a forced invocation ends with that error without
\* writing the file or printing a document.
C18_AllOrNothing ==
  RunParsed =>
    LET res == RunApply IN
    res.err # NoErr =>
      /\ res.doc = run.pre
      /\ run.force => run.err = res.err /\ run.out = "none" /\ file = run.pre

\* a forced copy onto a file whose source navigates and whose destination
\* does not
C18_Witness ==
  /\ RunParsed
  /\ run.cmd = "copy"
  /\ run.force
  /\ run.has_file
  /\ navigate(run.pre, parse_path(run.src).segs).err = NoErr
  /\ RunApply.err = "KeyError"
  /\ file = run.pre

\* C19: for set, set-null, before, after, copy and merge the preview fails
\* exactly when the same command with -f fails; a copy whose destination does
\* not navigate is rejected in preview too.
C19_PreviewAgreesWithForced ==
  (RunParsed /\ ~run.force /\ run.cmd # "del") =>
    (run.err # NoErr <=> RunApply.err # NoErr)

\* the types an items schema names: its 'type' and the types of its 'oneOf'
\* entries
NamedTypes(items) ==
  (IF HasKey(items, "type") THEN {TypeOf(items)} ELSE {})
    \cup (IF HasKey(items, "oneOf")
            THEN {TypeOf(DictGet(items, "oneOf").v[i]) : i \in 1..Len(DictGet(items, "oneOf").v)}
            ELSE {})

\* items represents the element x: by its type, or for null by nullable = true
Represents(items, x) ==
  \/ get_type_name(x) \in NamedTypes(items)
  \/ x = Null /\ HasKey(items, "nullable") /\ DictGet(items, "nullable") = JBool(TRUE)

RECURSIVE Covers(_, _)
\* the schema of the array d represents every element of d in its 'items',
\* and, where 'items' is an array schema, covers every element array too
Covers(schema, d) ==
  LET items == ItemsOf(schema) IN
  \A i \in 1..Len(d.v) :
    /\ Represents(items, d.v[i])
    /\ (IsList(d.v[i]) /\ TypeOf(items) = "array") => Covers(items, d.v[i])

\* C21: for an array of at most 20 elements per level, nested to any depth,
\* the type of every element at every level is represented in the 'items'
\* schema of its level (as 'type', as nullable for null, or in 'oneOf'):
\* merging the item schemas of sibling arrays loses no type and no nullable.
C21_SchemaCoversSamples ==
  (InferredArray /\ Len(data.v) <= _SCHEMA_SAMPLE) => Covers(ans.schema, data)

\* the files of open/ and closed/, each with its subdirectory
Files(d) ==
  IF ~d.exists THEN {}
  ELSE {<<"open", n>> : n \in d.open} \cup {<<"closed", n>> : n \in d.closed}

\* the numeric ID prefix of a file that has one
Numbered(d) == {f \in Files(d) : DigitPrefix(f[2]) # <<>>}

IdOf(f) == int(DigitPrefix(f[2]))

NoSharedPrefix(d) == \A f, g \in Numbered(d) : f # g => IdOf(f) # IdOf(g)

\* the state right after a run of the script that printed an ID
JustReturned == IdPrinted /\ arg = dirs

====
